---- MODULE Spec2Model ----
(***************************************************************************)
(* PPTX -> PDF conversion pipeline of SkillStack.                          *)
(*                                                                         *)
(* The repository holds three implementations of convertPptToPdf:          *)
(*   "ppt"   src/pptConverter.js          (canvas renderer, current)       *)
(*   "p5"    src/unnamed/part_005:277     (earlier pptConverter.js)        *)
(*   "utils" src/converterUtils.js:292    (inline in converterUtils.js)    *)
(* and the dispatcher convertDocument (src/converterUtils.js:14,           *)
(* src/unnamed/part_004:15) that reports progress 20 and then calls one of *)
(* them.  One conversion call is modelled as a sequential process whose    *)
(* program counter pc stops at every await of the source.                  *)
(*                                                                         *)
(* Host steps that can fail are the ones the host really fails: opening    *)
(* the archive, reading an archive entry, decoding an image, exporting the *)
(* canvas and parsing the exported PNG.  Parsing is regex based and the    *)
(* draw* helpers catch everything they raise, so a slide's XML never makes *)
(* a slide fail.  The pdf-lib calls that get well-formed arguments         *)
(* (create, addPage, drawImage, embedFont of a standard font, drawText,    *)
(* save) do not fail.                                                      *)
(***************************************************************************)
EXTENDS Integers, Sequences, FiniteSets, TLC

\* ---- bounds -------------------------------------------------------------
MaxSlides == 3

\* slide numbers an archive may hold: 1, 2, ... and 10, so that numeric and
\* lexicographic order differ (slide10.xml sorts before slide2.xml as text)
SlideNumbers == (1 .. (MaxSlides - 1)) \cup {10}

\* ---- program constants ----------------------------------------------------
DefaultSlideWidth == 960
DefaultSlideHeight == 540
UtilsSlideWidth == 1280
UtilsSlideHeight == 720
EmuPerInch == 914400
Dpi == 96

\* a declared <p:sldSz cx cy> in EMU (a 4:3 deck: 10in x 7.5in)
DeclaredSldSz == <<9144000, 6858000>>

Versions == {"ppt", "p5", "utils"}
Entries == {"direct", "convertDocument"}

VARIABLES
    ver,          \* which implementation of convertPptToPdf runs
    entry,        \* called directly or through convertDocument
    pkg,          \* the input package (read-only)
    pc,           \* position of the conversion
    slideFiles,   \* discovered slides, as sorted by the code
    slideWidth,   \* shared canvas size
    slideHeight,
    i,            \* loop index, 0-based as in the source
    canvas,       \* slide numbers whose drawing is on the shared canvas
    pages,        \* pages of pdfDoc, in order
    progress,     \* values passed to progressCallback, in order
    result,       \* outcome of convertPptToPdf: "none" | "pdf" | "thrown"
    error,        \* what was thrown
    slideErr,     \* the error caught for the current slide
    mediaFiles,   \* preloaded media (ppt)
    urls,         \* object URLs created and not revoked
    logoInfo,     \* p5: TRUE when findLogoInPresentation returned a logo
    imgEvent,     \* image being decoded: "none" | "pending" | "load" | "error"
    docResult,    \* outcome of convertDocument
    relFile,      \* ppt: the slide's .rels entry: "unset" | "null" | "file"
    slideRels,    \* ppt: the slide's relationship table, id -> media path
    drawn,        \* ppt: draw calls made on the canvas since it was cleared
    call,         \* a helper function run on its own, with its arguments
    loc,          \* the locals of a helper that loops
    ret,          \* what the helper returned
    ui            \* the state of the FileConverter component

vars == <<ver, entry, pkg, pc, slideFiles, slideWidth, slideHeight, i, canvas,
          pages, progress, result, error, slideErr, mediaFiles, urls,
          logoInfo, imgEvent, docResult, relFile, slideRels, drawn,
          call, loc, ret, ui>>

\* the slide-local state of the canvas renderer
drawVars == <<relFile, slideRels, drawn>>

\* the state of a helper function that is run on its own
fnVars == <<call, loc, ret>>

NoCall == [fn |-> "none"]
NoLocals == [k |-> 0, lines |-> <<>>, currentLine |-> <<>>]
NoReturn == [done |-> FALSE]

\* the converter UI: no running conversion, no converted file, and the state
\* of the component when it is mounted (src/FileConverter.js:16-21)
NoConversion == [progressInterval |-> 0, file |-> "none", conversionType |-> ""]
NoConvertedFile == [file |-> "none", conversionType |-> ""]
Mounted ==
    [file |-> "none", convertedFile |-> NoConvertedFile, conversionType |-> "",
     isConverting |-> FALSE, progress |-> 0, error |-> "none",
     timers |-> {}, started |-> 0, running |-> NoConversion]

\* ---- helpers ------------------------------------------------------------

Injective(s) == \A a, b \in DOMAIN s : s[a] = s[b] => a = b

\* Math.round(parseInt(v) * (96 / 914400))
emuToPixel(v) == (v * Dpi + (EmuPerInch \div 2)) \div EmuPerInch

RECURSIVE InsertSorted(_, _)
InsertSorted(x, s) ==
    IF s = <<>> THEN <<x>>
    ELSE IF x < Head(s) THEN <<x>> \o s
    ELSE <<Head(s)>> \o InsertSorted(x, Tail(s))

\* .sort((a, b) => a.number - b.number)
RECURSIVE SortByNumber(_)
SortByNumber(s) ==
    IF s = <<>> THEN <<>>
    ELSE InsertSorted(s[Len(s)], SortByNumber(SubSeq(s, 1, Len(s) - 1)))

\* the slide entries in the order the archive enumerates them
findSlideFiles_unsorted(p) == p.entries

\* Object.keys(files).filter(slide\d+.xml).map(number).sort(numeric)
findSlideFiles(p) == SortByNumber(p.entries)

\* if (slideFiles.length === 0) throw new Error('No slides found ...')
NoSlides_never(sf) == FALSE

NoSlides(sf) == Len(sf) = 0

\* if (!presentationFile) throw new Error('Invalid PowerPoint file: ...')
ManifestMissing_ignored(p) == FALSE

ManifestMissing(p) == ~p.manifest

\* 30 + Math.floor((i / slideFiles.length) * 60)
SlideProgress(k, n) == 30 + ((k * 60) \div n)

RenderedPage(n, content, w, h) ==
    [kind |-> "image", number |-> n, content |-> content, msg |-> "none",
     w |-> w, h |-> h]

\* an error page added without the canvas size
ErrorPage_defaultSize(n, msg, w, h) ==
    [kind |-> "error", number |-> n, content |-> {}, msg |-> msg,
     w |-> DefaultSlideWidth, h |-> DefaultSlideHeight]

ErrorPage(n, msg, w, h) ==
    [kind |-> "error", number |-> n, content |-> {}, msg |-> msg,
     w |-> w, h |-> h]

BlankPage(n, w, h) ==
    [kind |-> "blank", number |-> n, content |-> {}, msg |-> "none",
     w |-> w, h |-> h]

\* ---- initial states: one call on one package ----------------------------

EntryOrders ==
    {s \in UNION {[1 .. n -> SlideNumbers] : n \in 0 .. MaxSlides} : Injective(s)}

Packages ==
    {[valid |-> FALSE, manifest |-> FALSE, sldSz |-> <<>>, entries |-> <<>>,
      media |-> "none"]}
    \cup
    {[valid |-> TRUE, manifest |-> m, sldSz |-> sz, entries |-> e, media |-> md] :
        m \in BOOLEAN, sz \in {<<>>, DeclaredSldSz}, e \in EntryOrders,
        md \in {"none", "ok", "broken"}}

Init ==
    /\ ver \in Versions
    /\ entry \in Entries
    /\ pkg \in Packages
    /\ (~pkg.manifest => pkg.sldSz = <<>>)
    /\ pc = IF entry = "convertDocument" THEN "cd_read" ELSE "start"
    /\ slideFiles = <<>>
    /\ slideWidth = 0
    /\ slideHeight = 0
    /\ i = 0
    /\ canvas = {}
    /\ pages = <<>>
    /\ progress = <<>>
    /\ result = "none"
    /\ error = "none"
    /\ slideErr = "none"
    /\ mediaFiles = {}
    /\ urls = {}
    /\ logoInfo = FALSE
    /\ imgEvent = "none"
    /\ docResult = "none"
    /\ relFile = "unset"
    /\ slideRels = <<>>
    /\ drawn = <<>>
    /\ call = NoCall
    /\ loc = NoLocals
    /\ ret = NoReturn
    /\ ui = Mounted

progressCallback(v) == progress' = Append(progress, v)

\* the outer catch of convertPptToPdf: throw new Error(`Failed to convert ...`)
Throw(kind) ==
    /\ result' = "thrown"
    /\ error' = kind
    /\ pc' = "returned"


\* ---- convertDocument (src/converterUtils.js:14, src/unnamed/part_004:15) --

\* const fileBuffer = await readFileAsArrayBuffer(file); progressCallback(20);
\* switch (conversionType) case 'ppt-to-pdf': convertPptToPdf(...)
convertDocument ==
    /\ pc = "cd_read"
    /\ \E readOk \in BOOLEAN :
        IF readOk
        THEN /\ progressCallback(20)
             /\ pc' = "start"
             /\ UNCHANGED docResult
        ELSE /\ docResult' = "thrown"
             /\ pc' = "cd_done"
             /\ UNCHANGED progress
    /\ UNCHANGED <<ui, fnVars, drawVars, ver, entry, pkg, slideFiles, slideWidth, slideHeight, i,
                   canvas, pages, result, error, slideErr, mediaFiles, urls,
                   logoInfo, imgEvent>>

\* return await convertPptToPdf(fileBuffer, progressCallback)
convertDocumentReturn ==
    /\ pc = "returned"
    /\ entry = "convertDocument"
    /\ docResult' = result
    /\ pc' = "cd_done"
    /\ UNCHANGED <<ui, fnVars, drawVars, ver, entry, pkg, slideFiles, slideWidth, slideHeight, i,
                   canvas, pages, progress, result, error, slideErr,
                   mediaFiles, urls, logoInfo, imgEvent>>

\* ---- src/pptConverter.js: convertPptToPdf --------------------------------

\* lines 12-18: progressCallback(10); await zip.loadAsync(fileBuffer)
Ppt_Start ==
    /\ pc = "start" /\ ver = "ppt"
    /\ progressCallback(10)
    /\ pc' = "ppt_loadAsync"
    /\ UNCHANGED <<ui, fnVars, drawVars, ver, entry, pkg, slideFiles, slideWidth, slideHeight, i,
                   canvas, pages, result, error, slideErr, mediaFiles, urls,
                   logoInfo, imgEvent, docResult>>

\* the canvas size of lines 20-41: defaults unless presentation.xml is there,
\* can be read and declares <p:sldSz>
Ppt_SlideSize(p, readOk) ==
    IF p.manifest /\ readOk /\ p.sldSz # <<>>
    THEN <<emuToPixel(p.sldSz[1]), emuToPixel(p.sldSz[2])>>
    ELSE <<DefaultSlideWidth, DefaultSlideHeight>>

\* lines 18-60: the archive opened (or not); slide size; slide discovery;
\* throw when there is no slide; progressCallback(20)
Ppt_Prepare ==
    /\ pc = "ppt_loadAsync"
    /\ IF ~pkg.valid
       THEN /\ Throw("MalformedPackage")
            /\ UNCHANGED <<slideFiles, slideWidth, slideHeight, progress>>
       ELSE \E readOk \in BOOLEAN :
            /\ slideWidth' = Ppt_SlideSize(pkg, readOk)[1]
            /\ slideHeight' = Ppt_SlideSize(pkg, readOk)[2]
            /\ slideFiles' = findSlideFiles(pkg)
            /\ IF NoSlides(findSlideFiles(pkg))
               THEN /\ Throw("NoSlidesFound")
                    /\ UNCHANGED progress
               ELSE /\ progressCallback(20)
                    /\ pc' = "ppt_preload"
                    /\ UNCHANGED <<result, error>>
    /\ UNCHANGED <<ui, fnVars, drawVars, ver, entry, pkg, i, canvas, pages, slideErr, mediaFiles,
                   urls, logoInfo, imgEvent, docResult>>

\* lines 215-236 preloadMediaFiles: the media entry is read, an object URL is
\* created for it and an Image is pointed at the URL; a failed read is caught
\* (line 251) and the file skipped
preloadMediaFiles ==
    /\ pc = "ppt_preload"
    /\ IF pkg.media = "none"
       THEN /\ pc' = "ppt_create"
            /\ UNCHANGED <<urls, imgEvent>>
       ELSE \E readOk \in BOOLEAN :
            IF readOk
            THEN /\ urls' = urls \cup {"image1"}
                 /\ imgEvent' = "pending"
                 /\ pc' = "ppt_decode"
            ELSE /\ pc' = "ppt_create"
                 /\ UNCHANGED <<urls, imgEvent>>
    /\ UNCHANGED <<ui, fnVars, drawVars, ver, entry, pkg, slideFiles, slideWidth, slideHeight, i,
                   canvas, pages, progress, result, error, slideErr,
                   mediaFiles, logoInfo, docResult>>

\* the host decodes the image and fires onload or onerror
HostImageDecode ==
    /\ imgEvent = "pending"
    /\ imgEvent' = IF pkg.media = "ok" THEN "load" ELSE "error"
    /\ UNCHANGED <<ui, fnVars, drawVars, ver, entry, pkg, pc, slideFiles, slideWidth, slideHeight,
                   i, canvas, pages, progress, result, error, slideErr,
                   mediaFiles, urls, logoInfo, docResult>>

\* lines 238-253: img.onload = resolve stores the entry in mediaFiles;
\* img.onerror = reject is caught and the file skipped
preloadMediaFiles_settled ==
    /\ pc = "ppt_decode"
    /\ imgEvent \in {"load", "error"}
    /\ mediaFiles' = IF imgEvent = "load" THEN mediaFiles \cup {"image1"}
                     ELSE mediaFiles
    /\ imgEvent' = "none"
    /\ pc' = "ppt_create"
    /\ UNCHANGED <<ui, fnVars, drawVars, ver, entry, pkg, slideFiles, slideWidth, slideHeight, i,
                   canvas, pages, progress, result, error, slideErr, urls,
                   logoInfo, docResult>>

\* lines 67-73: PDFDocument.create(); the shared canvas
Ppt_CreateDoc ==
    /\ pc = "ppt_create"
    /\ pages' = <<>>
    /\ canvas' = {}
    /\ i' = 0
    /\ pc' = "ppt_loop"
    /\ UNCHANGED <<ui, fnVars, drawVars, ver, entry, pkg, slideFiles, slideWidth, slideHeight,
                   progress, result, error, slideErr, mediaFiles, urls,
                   logoInfo, imgEvent, docResult>>

\* a canvas that keeps what the slide before has drawn
clearRect_kept(c) == c

\* ctx.clearRect(0, 0, slideWidth, slideHeight)
clearRect(c) == {}

\* lines 76-88: loop head, progress, clear the canvas, start reading the slide
Ppt_LoopHead ==
    /\ pc = "ppt_loop"
    /\ i < Len(slideFiles)
    /\ progressCallback(SlideProgress(i, Len(slideFiles)))
    /\ canvas' = clearRect(canvas)
    /\ slideErr' = "none"
    /\ pc' = "ppt_read"
    /\ UNCHANGED <<ui, fnVars, drawVars, ver, entry, pkg, slideFiles, slideWidth, slideHeight, i,
                   pages, result, error, mediaFiles, urls, logoInfo, imgEvent, docResult>>

\* line 88: await pptxContent.file(slideFile.path).async('text')
Ppt_ReadSlide ==
    /\ pc = "ppt_read"
    /\ \E ok \in BOOLEAN :
        IF ok THEN /\ pc' = "ppt_rels"
                   /\ UNCHANGED slideErr
        ELSE /\ slideErr' = "read"
             /\ pc' = "ppt_catch"
    /\ UNCHANGED <<ui, fnVars, drawVars, ver, entry, pkg, slideFiles, slideWidth, slideHeight, i,
                   canvas, pages, progress, result, error, mediaFiles, urls,
                   logoInfo, imgEvent, docResult>>

\* drawSlideBackground fills the whole canvas white (lines 275-276) before
\* anything of the slide is drawn on it
fillBackground_skipped(c) == c

fillBackground(c) == {}

\* the relationship id a slide refers to, from the <a:blip r:embed> of its
\* <p:pic> and of its <p:bg>; the relationship, when the table has it, points
\* at the one media entry of the package
RelIds == {"rId2"}
MediaKey == "image1"

\* a table that is filled although the slide has no .rels entry
loadSlideRelationships_ghost(f, readOk, ids) == [id \in ids |-> MediaKey]

\* lines 167-208 loadSlideRelationships: rels = {}; if (relFile) the entry is
\* read and every <Relationship> with Id and Target is stored; a failed read
\* is caught and the empty table returned
loadSlideRelationships(f, readOk, ids) ==
    IF f = "file" /\ readOk THEN [id \in ids |-> MediaKey] ELSE <<>>

\* slideRels[id] && mediaFiles[slideRels[id].target]
Resolved(rels, media, id) == id \in DOMAIN rels /\ rels[id] \in media

\* a background whose image is drawn before the white fill
drawSlideBackground_imageFirst(d, bg, rels, media) ==
    IF bg = "blip" /\ Resolved(rels, media, "rId2")
    THEN d \o <<"bgImage", "fill">>
    ELSE Append(d, "fill")

\* lines 273-305 drawSlideBackground: white fillRect; a solid colour is
\* filled over it; else a background blip that resolves to a loaded image is
\* drawn stretched over the canvas
drawSlideBackground(d, bg, rels, media) ==
    LET white == Append(d, "fill") IN
    IF bg = "color" THEN Append(white, "fill")
    ELSE IF bg = "blip" /\ Resolved(rels, media, "rId2")
         THEN Append(white, "bgImage")
         ELSE white

\* lines 316-409 drawSlideShapes: the <p:sp> without text, fill then stroke
drawSlideShapes(d) == Append(d, "shape")

\* a picture that is drawn without looking its relationship up
drawSlideImages_unchecked(d, rels, media) == Append(d, "picture")

\* lines 420-461 drawSlideImages: if (!slideRels[id]) continue;
\* if (!mediaFiles[imagePath]) continue; ctx.drawImage(...)
drawSlideImages(d, rels, media) ==
    IF Resolved(rels, media, "rId2") THEN Append(d, "picture") ELSE d

\* lines 503-797 drawSlideText: the lines of every text shape
drawSlideText(d) == Append(d, "text")

\* line 91: await loadSlideRelationships(pptxContent, slideNumber)
Ppt_LoadRels ==
    /\ pc = "ppt_rels"
    /\ \E f \in {"null", "file"}, readOk \in BOOLEAN, ids \in SUBSET RelIds :
        /\ relFile' = f
        /\ slideRels' = loadSlideRelationships(f, readOk, ids)
    /\ pc' = "ppt_background"
    /\ UNCHANGED <<ui, fnVars, drawn, ver, entry, pkg, slideFiles, slideWidth,
                   slideHeight, i, canvas, pages, progress, result, error,
                   slideErr, mediaFiles, urls, logoInfo, imgEvent, docResult>>

\* line 94: await drawSlideBackground(...); the slide declares a solid colour
\* or a picture as its background
Ppt_Background ==
    /\ pc = "ppt_background"
    /\ \E bg \in {"color", "blip"} :
        drawn' = drawSlideBackground(drawn, bg, slideRels, mediaFiles)
    /\ canvas' = fillBackground(canvas) \cup {slideFiles[i + 1]}
    /\ pc' = "ppt_shapes"
    /\ UNCHANGED <<ui, fnVars, relFile, slideRels, ver, entry, pkg, slideFiles,
                   slideWidth, slideHeight, i, pages, progress, result, error,
                   slideErr, mediaFiles, urls, logoInfo, imgEvent, docResult>>

\* line 97: await drawSlideShapes(...)
Ppt_Shapes ==
    /\ pc = "ppt_shapes"
    /\ drawn' = drawSlideShapes(drawn)
    /\ pc' = "ppt_images"
    /\ UNCHANGED <<ui, fnVars, relFile, slideRels, ver, entry, pkg, slideFiles,
                   slideWidth, slideHeight, i, canvas, pages, progress, result,
                   error, slideErr, mediaFiles, urls, logoInfo, imgEvent,
                   docResult>>

\* line 100: await drawSlideImages(...)
Ppt_Images ==
    /\ pc = "ppt_images"
    /\ drawn' = drawSlideImages(drawn, slideRels, mediaFiles)
    /\ pc' = "ppt_text"
    /\ UNCHANGED <<ui, fnVars, relFile, slideRels, ver, entry, pkg, slideFiles,
                   slideWidth, slideHeight, i, canvas, pages, progress, result,
                   error, slideErr, mediaFiles, urls, logoInfo, imgEvent,
                   docResult>>

\* line 103: await drawSlideText(...)
Ppt_Text ==
    /\ pc = "ppt_text"
    /\ drawn' = drawSlideText(drawn)
    /\ pc' = "ppt_encode"
    /\ UNCHANGED <<ui, fnVars, relFile, slideRels, ver, entry, pkg, slideFiles,
                   slideWidth, slideHeight, i, canvas, pages, progress, result,
                   error, slideErr, mediaFiles, urls, logoInfo, imgEvent,
                   docResult>>

\* lines 106-109: canvas.toDataURL('image/png'); dataURLToBytes
Ppt_Encode ==
    /\ pc = "ppt_encode"
    /\ \E ok \in BOOLEAN :
        IF ok THEN /\ pc' = "ppt_embed"
                   /\ UNCHANGED slideErr
        ELSE /\ slideErr' = "encode"
             /\ pc' = "ppt_catch"
    /\ UNCHANGED <<ui, fnVars, drawVars, ver, entry, pkg, slideFiles, slideWidth, slideHeight, i,
                   canvas, pages, progress, result, error, mediaFiles, urls,
                   logoInfo, imgEvent, docResult>>

\* the end of an iteration of the slide loop: its locals are gone
EndOfIteration ==
    /\ relFile' = "unset"
    /\ slideRels' = <<>>
    /\ drawn' = <<>>

\* an embedPng that is not awaited: the loop goes on to the next slide while
\* the page of this one is still being assembled
Ppt_EmbedPng_detached ==
    /\ pc = "ppt_embed"
    /\ i' = i + 1
    /\ pc' = "ppt_loop"
    /\ EndOfIteration
    /\ UNCHANGED <<ui, fnVars, ver, entry, pkg, slideFiles, slideWidth, slideHeight,
                   canvas, pages, progress, result, error, slideErr, mediaFiles,
                   urls, logoInfo, imgEvent, docResult>>

\* lines 112-122: await pdfDoc.embedPng; addPage([slideWidth, slideHeight]);
\* page.drawImage full page
Ppt_EmbedPng ==
    /\ pc = "ppt_embed"
    /\ \E ok \in BOOLEAN :
        IF ok
        THEN /\ pages' = Append(pages, RenderedPage(slideFiles[i + 1], canvas,
                                                    slideWidth, slideHeight))
             /\ i' = i + 1
             /\ pc' = "ppt_loop"
             /\ EndOfIteration
             /\ UNCHANGED slideErr
        ELSE /\ slideErr' = "embed"
             /\ pc' = "ppt_catch"
             /\ UNCHANGED <<pages, i, drawVars>>
    /\ UNCHANGED <<ui, fnVars, ver, entry, pkg, slideFiles, slideWidth, slideHeight,
                   canvas, progress, result, error, mediaFiles, urls,
                   logoInfo, imgEvent, docResult>>

\* a slide error that is thrown on instead of being turned into a page
Ppt_CatchSlide_rethrow ==
    /\ pc = "ppt_catch"
    /\ Throw("SlideFailed")
    /\ UNCHANGED <<ui, fnVars, drawVars, ver, entry, pkg, slideFiles, slideWidth, slideHeight, i,
                   canvas, pages, progress, slideErr, mediaFiles, urls,
                   logoInfo, imgEvent, docResult>>

\* lines 123-137: catch (slideErr): addPage([slideWidth, slideHeight]) and
\* drawText(`Error processing slide ${slideNumber}: ${slideErr.message}`)
Ppt_CatchSlide ==
    /\ pc = "ppt_catch"
    /\ pages' = Append(pages, ErrorPage(slideFiles[i + 1], slideErr,
                                        slideWidth, slideHeight))
    /\ i' = i + 1
    /\ pc' = "ppt_loop"
    /\ EndOfIteration
    /\ UNCHANGED <<ui, fnVars, ver, entry, pkg, slideFiles, slideWidth, slideHeight,
                   canvas, progress, result, error, slideErr, mediaFiles, urls,
                   logoInfo, imgEvent, docResult>>

\* lines 138-143: the loop is over; progressCallback(95); await pdfDoc.save()
Ppt_LoopExit ==
    /\ pc = "ppt_loop"
    /\ i >= Len(slideFiles)
    /\ progressCallback(95)
    /\ pc' = "ppt_save"
    /\ UNCHANGED <<ui, fnVars, drawVars, ver, entry, pkg, slideFiles, slideWidth, slideHeight, i,
                   canvas, pages, result, error, slideErr, mediaFiles, urls,
                   logoInfo, imgEvent, docResult>>

\* a return that skips the final progressCallback(100)
Ppt_Return_silent ==
    /\ pc = "ppt_save"
    /\ urls' = urls \ mediaFiles
    /\ result' = "pdf"
    /\ pc' = "returned"
    /\ UNCHANGED <<ui, fnVars, drawVars, ver, entry, pkg, slideFiles, slideWidth, slideHeight, i,
                   canvas, pages, progress, error, slideErr, mediaFiles,
                   logoInfo, imgEvent, docResult>>

\* lines 145-154: revoke the URL of every entry of mediaFiles;
\* progressCallback(100); return pdfBytes
Ppt_Return ==
    /\ pc = "ppt_save"
    /\ urls' = urls \ mediaFiles
    /\ progressCallback(100)
    /\ result' = "pdf"
    /\ pc' = "returned"
    /\ UNCHANGED <<ui, fnVars, drawVars, ver, entry, pkg, slideFiles, slideWidth, slideHeight, i,
                   canvas, pages, error, slideErr, mediaFiles, logoInfo, imgEvent,
                   docResult>>

Ppt_Next ==
    \/ Ppt_Start \/ Ppt_Prepare \/ preloadMediaFiles
    \/ preloadMediaFiles_settled \/ Ppt_CreateDoc
    \/ Ppt_LoopHead \/ Ppt_ReadSlide \/ Ppt_LoadRels \/ Ppt_Background
    \/ Ppt_Shapes \/ Ppt_Images \/ Ppt_Text \/ Ppt_Encode
    \/ Ppt_EmbedPng \/ Ppt_CatchSlide \/ Ppt_LoopExit \/ Ppt_Return

\* ---- src/unnamed/part_005: convertPptToPdf (earlier pptConverter.js) ------

\* lines 278-283: progressCallback(10); await zip.loadAsync(fileBuffer)
P5_Start ==
    /\ pc = "start" /\ ver = "p5"
    /\ progressCallback(10)
    /\ pc' = "p5_loadAsync"
    /\ UNCHANGED <<ui, fnVars, drawVars, ver, entry, pkg, slideFiles, slideWidth, slideHeight, i,
                   canvas, pages, result, error, slideErr, mediaFiles, urls,
                   logoInfo, imgEvent, docResult>>

\* lines 283-293: the archive opened (or not); findSlideFiles; throw when
\* there is no slide; progressCallback(20)
P5_Prepare ==
    /\ pc = "p5_loadAsync"
    /\ IF ~pkg.valid
       THEN /\ Throw("MalformedPackage")
            /\ UNCHANGED <<slideFiles, progress>>
       ELSE /\ slideFiles' = findSlideFiles(pkg)
            /\ IF NoSlides(findSlideFiles(pkg))
               THEN /\ Throw("NoSlidesFound")
                    /\ UNCHANGED progress
               ELSE /\ progressCallback(20)
                    /\ pc' = "p5_extract"
                    /\ UNCHANGED <<result, error>>
    /\ UNCHANGED <<ui, fnVars, drawVars, ver, entry, pkg, slideWidth, slideHeight, i, canvas,
                   pages, slideErr, mediaFiles, urls, logoInfo, imgEvent,
                   docResult>>

\* lines 296-320: extractThemeInfo, extractMediaRelations and
\* findLogoInPresentation catch their own errors; the logo is the first image
\* of ppt/media when its entry can be read; progressCallback(30);
\* PDFDocument.create(), the two fonts, the fixed 960x540 canvas
P5_Extract ==
    /\ pc = "p5_extract"
    /\ \E readOk \in BOOLEAN : logoInfo' = (pkg.media # "none" /\ readOk)
    /\ progressCallback(30)
    /\ slideWidth' = DefaultSlideWidth
    /\ slideHeight' = DefaultSlideHeight
    /\ pages' = <<>>
    /\ canvas' = {}
    /\ i' = 0
    /\ pc' = "p5_loop"
    /\ UNCHANGED <<ui, fnVars, drawVars, ver, entry, pkg, slideFiles, result, error, slideErr,
                   mediaFiles, urls, imgEvent, docResult>>

\* lines 323-340: loop head, progress, the slide entry is looked up and read
P5_LoopHead ==
    /\ pc = "p5_loop"
    /\ i < Len(slideFiles)
    /\ progressCallback(SlideProgress(i, Len(slideFiles)))
    /\ slideErr' = "none"
    /\ pc' = "p5_read"
    /\ UNCHANGED <<ui, fnVars, drawVars, ver, entry, pkg, slideFiles, slideWidth, slideHeight, i,
                   canvas, pages, result, error, mediaFiles, urls, logoInfo,
                   imgEvent, docResult>>

\* line 340: await slideXmlFile.async('text')
P5_ReadSlide ==
    /\ pc = "p5_read"
    /\ \E ok \in BOOLEAN :
        IF ok THEN /\ pc' = "p5_background"
                   /\ UNCHANGED slideErr
        ELSE /\ slideErr' = "read"
             /\ pc' = "p5_catch"
    /\ UNCHANGED <<ui, fnVars, drawVars, ver, entry, pkg, slideFiles, slideWidth, slideHeight, i,
                   canvas, pages, progress, result, error, mediaFiles, urls,
                   logoInfo, imgEvent, docResult>>

\* lines 343-366: the background is filled over the whole canvas; when there
\* is a logo a new Image is created and awaited:
\*   await new Promise((resolve) => { logoImg.onload = resolve; ... })
P5_Background ==
    /\ pc = "p5_background"
    /\ canvas' = fillBackground(canvas)
    /\ IF logoInfo
       THEN /\ imgEvent' = "pending"
            /\ pc' = "p5_logo"
       ELSE /\ pc' = "p5_text"
            /\ UNCHANGED imgEvent
    /\ UNCHANGED <<ui, fnVars, drawVars, ver, entry, pkg, slideFiles, slideWidth, slideHeight, i,
                   pages, progress, result, error, slideErr, mediaFiles,
                   urls, logoInfo, docResult>>

\* lines 363-376: the promise has only an onload handler, the conversion goes
\* on when the logo has loaded
P5_LogoLoaded ==
    /\ pc = "p5_logo"
    /\ imgEvent = "load"
    /\ imgEvent' = "none"
    /\ pc' = "p5_text"
    /\ UNCHANGED <<ui, fnVars, drawVars, ver, entry, pkg, slideFiles, slideWidth, slideHeight, i,
                   canvas, pages, progress, result, error, slideErr,
                   mediaFiles, urls, logoInfo, docResult>>

\* lines 379-440: logo, title, paragraphs and slide number are drawn
P5_DrawText ==
    /\ pc = "p5_text"
    /\ canvas' = canvas \cup {slideFiles[i + 1]}
    /\ pc' = "p5_encode"
    /\ UNCHANGED <<ui, fnVars, drawVars, ver, entry, pkg, slideFiles, slideWidth, slideHeight, i,
                   pages, progress, result, error, slideErr, mediaFiles,
                   urls, logoInfo, imgEvent, docResult>>

\* lines 443-444: canvas.toDataURL('image/png'); dataURLToUint8Array
P5_Encode ==
    /\ pc = "p5_encode"
    /\ \E ok \in BOOLEAN :
        IF ok THEN /\ pc' = "p5_embed"
                   /\ UNCHANGED slideErr
        ELSE /\ slideErr' = "encode"
             /\ pc' = "p5_catch"
    /\ UNCHANGED <<ui, fnVars, drawVars, ver, entry, pkg, slideFiles, slideWidth, slideHeight, i,
                   canvas, pages, progress, result, error, mediaFiles, urls,
                   logoInfo, imgEvent, docResult>>

\* lines 447-457: await pdfDoc.embedPng; addPage; page.drawImage
P5_EmbedPng ==
    /\ pc = "p5_embed"
    /\ \E ok \in BOOLEAN :
        IF ok
        THEN /\ pages' = Append(pages, RenderedPage(slideFiles[i + 1], canvas,
                                                    slideWidth, slideHeight))
             /\ i' = i + 1
             /\ pc' = "p5_loop"
             /\ UNCHANGED slideErr
        ELSE /\ slideErr' = "embed"
             /\ pc' = "p5_catch"
             /\ UNCHANGED <<pages, i>>
    /\ UNCHANGED <<ui, fnVars, drawVars, ver, entry, pkg, slideFiles, slideWidth, slideHeight,
                   canvas, progress, result, error, mediaFiles, urls,
                   logoInfo, imgEvent, docResult>>

\* lines 458-488: catch (slideErr): an error page with
\* `Error processing slide ${slideNumber}` and `Error: ${slideErr.message}`
P5_CatchSlide ==
    /\ pc = "p5_catch"
    /\ pages' = Append(pages, ErrorPage(slideFiles[i + 1], slideErr,
                                        slideWidth, slideHeight))
    /\ i' = i + 1
    /\ pc' = "p5_loop"
    /\ UNCHANGED <<ui, fnVars, drawVars, ver, entry, pkg, slideFiles, slideWidth, slideHeight,
                   canvas, progress, result, error, slideErr, mediaFiles,
                   urls, logoInfo, imgEvent, docResult>>

\* lines 489-494: progressCallback(95); await pdfDoc.save()
P5_LoopExit ==
    /\ pc = "p5_loop"
    /\ i >= Len(slideFiles)
    /\ progressCallback(95)
    /\ pc' = "p5_save"
    /\ UNCHANGED <<ui, fnVars, drawVars, ver, entry, pkg, slideFiles, slideWidth, slideHeight, i,
                   canvas, pages, result, error, slideErr, mediaFiles, urls,
                   logoInfo, imgEvent, docResult>>

\* lines 496-497: progressCallback(100); return pdfBytes
P5_Return ==
    /\ pc = "p5_save"
    /\ progressCallback(100)
    /\ result' = "pdf"
    /\ pc' = "returned"
    /\ UNCHANGED <<ui, fnVars, drawVars, ver, entry, pkg, slideFiles, slideWidth, slideHeight, i,
                   canvas, pages, error, slideErr, mediaFiles, urls,
                   logoInfo, imgEvent, docResult>>

P5_Next ==
    \/ P5_Start \/ P5_Prepare \/ P5_Extract \/ P5_LoopHead \/ P5_ReadSlide
    \/ P5_Background \/ P5_LogoLoaded \/ P5_DrawText \/ P5_Encode
    \/ P5_EmbedPng \/ P5_CatchSlide \/ P5_LoopExit \/ P5_Return

\* ---- src/converterUtils.js: convertPptToPdf ------------------------------

\* lines 293-298: progressCallback(5); await zip.loadAsync(fileBuffer)
Utils_Start ==
    /\ pc = "start" /\ ver = "utils"
    /\ progressCallback(5)
    /\ pc' = "utils_loadAsync"
    /\ UNCHANGED <<ui, fnVars, drawVars, ver, entry, pkg, slideFiles, slideWidth, slideHeight, i,
                   canvas, pages, result, error, slideErr, mediaFiles, urls,
                   logoInfo, imgEvent, docResult>>

\* lines 298-317: the archive opened (or not); progressCallback(15);
\* throw when ppt/presentation.xml is missing
Utils_Open ==
    /\ pc = "utils_loadAsync"
    /\ IF ~pkg.valid
       THEN /\ Throw("MalformedPackage")
            /\ UNCHANGED progress
       ELSE /\ progressCallback(15)
            /\ IF ManifestMissing(pkg)
               THEN Throw("MalformedPackage")
               ELSE /\ pc' = "utils_manifest"
                    /\ UNCHANGED <<result, error>>
    /\ UNCHANGED <<ui, fnVars, drawVars, ver, entry, pkg, slideFiles, slideWidth, slideHeight, i,
                   canvas, pages, slideErr, mediaFiles, urls, logoInfo,
                   imgEvent, docResult>>

\* the slides presentation.xml lists (<p:sldId r:id>), mapped to their files
\* through presentation.xml.rels and sorted by number (lines 320-375); the
\* manifest of a package lists the slide entries the archive holds
Utils_SlideFiles(p) == SortByNumber(p.entries)

\* lines 317-334: presentation.xml is read (a failed read reaches the outer
\* catch); throw when it lists no slide; progressCallback(20)
Utils_ReadManifest ==
    /\ pc = "utils_manifest"
    /\ \E readOk \in BOOLEAN :
        IF ~readOk
        THEN /\ Throw("EntryReadFailed")
             /\ UNCHANGED progress
        ELSE IF Len(pkg.entries) = 0
        THEN /\ Throw("NoSlidesFound")
             /\ UNCHANGED progress
        ELSE /\ progressCallback(20)
             /\ pc' = "utils_rels"
             /\ UNCHANGED <<result, error>>
    /\ UNCHANGED <<ui, fnVars, drawVars, ver, entry, pkg, slideFiles, slideWidth, slideHeight, i,
                   canvas, pages, slideErr, mediaFiles, urls, logoInfo,
                   imgEvent, docResult>>

\* lines 337-430: the relationship files are read (a failed read reaches the
\* outer catch); slideFiles sorted; progressCallback(25); progressCallback(30);
\* PDFDocument.create(); the fixed 1280x720 canvas
Utils_MapSlides ==
    /\ pc = "utils_rels"
    /\ \E readOk \in BOOLEAN :
        IF ~readOk
        THEN /\ Throw("EntryReadFailed")
             /\ UNCHANGED <<progress, slideFiles, slideWidth, slideHeight,
                            pages, canvas, i>>
        ELSE /\ slideFiles' = Utils_SlideFiles(pkg)
             /\ progress' = progress \o <<25, 30>>
             /\ slideWidth' = UtilsSlideWidth
             /\ slideHeight' = UtilsSlideHeight
             /\ pages' = <<>>
             /\ canvas' = {}
             /\ i' = 0
             /\ pc' = "utils_loop"
             /\ UNCHANGED <<result, error>>
    /\ UNCHANGED <<ui, fnVars, drawVars, ver, entry, pkg, slideErr, mediaFiles, urls, logoInfo,
                   imgEvent, docResult>>

\* lines 433-451: loop head, progress, the slide entry is looked up and read
Utils_LoopHead ==
    /\ pc = "utils_loop"
    /\ i < Len(slideFiles)
    /\ progressCallback(SlideProgress(i, Len(slideFiles)))
    /\ slideErr' = "none"
    /\ pc' = "utils_read"
    /\ UNCHANGED <<ui, fnVars, drawVars, ver, entry, pkg, slideFiles, slideWidth, slideHeight, i,
                   canvas, pages, result, error, mediaFiles, urls, logoInfo,
                   imgEvent, docResult>>

\* lines 451-504: await slideXmlFile.async('text'); white fill and background;
\* an embedded image is read, given an object URL and awaited (a failed read
\* is caught at line 519)
Utils_ReadSlide ==
    /\ pc = "utils_read"
    /\ \E ok \in BOOLEAN, imgReadOk \in BOOLEAN :
        IF ~ok
        THEN /\ slideErr' = "read"
             /\ pc' = "utils_catch"
             /\ UNCHANGED <<canvas, urls, imgEvent>>
        ELSE /\ canvas' = fillBackground(canvas)
             /\ UNCHANGED slideErr
             /\ IF pkg.media # "none" /\ imgReadOk
                THEN /\ urls' = urls \cup {"image1"}
                     /\ imgEvent' = "pending"
                     /\ pc' = "utils_image"
                ELSE /\ pc' = "utils_text"
                     /\ UNCHANGED <<urls, imgEvent>>
    /\ UNCHANGED <<ui, fnVars, drawVars, ver, entry, pkg, slideFiles, slideWidth, slideHeight, i,
                   pages, progress, result, error, mediaFiles, logoInfo,
                   docResult>>

\* lines 500-522: onload: the image is drawn and its URL revoked; onerror
\* rejects, which is caught (the URL stays)
Utils_ImageSettled ==
    /\ pc = "utils_image"
    /\ imgEvent \in {"load", "error"}
    /\ urls' = IF imgEvent = "load" THEN urls \ {"image1"} ELSE urls
    /\ imgEvent' = "none"
    /\ pc' = "utils_text"
    /\ UNCHANGED <<ui, fnVars, drawVars, ver, entry, pkg, slideFiles, slideWidth, slideHeight, i,
                   canvas, pages, progress, result, error, slideErr,
                   mediaFiles, logoInfo, docResult>>

\* lines 524-605: title, body and list text are drawn
Utils_DrawText ==
    /\ pc = "utils_text"
    /\ canvas' = canvas \cup {slideFiles[i + 1]}
    /\ pc' = "utils_encode"
    /\ UNCHANGED <<ui, fnVars, drawVars, ver, entry, pkg, slideFiles, slideWidth, slideHeight, i,
                   pages, progress, result, error, slideErr, mediaFiles,
                   urls, logoInfo, imgEvent, docResult>>

\* lines 608-622: canvas.toDataURL, atob; then pdfDoc.addPage comes BEFORE
\* await pdfDoc.embedPng(bytes)
Utils_Encode ==
    /\ pc = "utils_encode"
    /\ \E ok \in BOOLEAN :
        IF ok
        THEN /\ pages' = Append(pages, BlankPage(slideFiles[i + 1],
                                                 slideWidth, slideHeight))
             /\ pc' = "utils_embed"
             /\ UNCHANGED slideErr
        ELSE /\ slideErr' = "encode"
             /\ pc' = "utils_catch"
             /\ UNCHANGED pages
    /\ UNCHANGED <<ui, fnVars, drawVars, ver, entry, pkg, slideFiles, slideWidth, slideHeight, i,
                   canvas, progress, result, error, mediaFiles, urls,
                   logoInfo, imgEvent, docResult>>

\* lines 622-632: embedPng settled; page.drawImage fills the page added before
Utils_EmbedPng ==
    /\ pc = "utils_embed"
    /\ \E ok \in BOOLEAN :
        IF ok
        THEN /\ pages' = [pages EXCEPT ![Len(pages)] =
                            RenderedPage(slideFiles[i + 1], canvas,
                                         slideWidth, slideHeight)]
             /\ i' = i + 1
             /\ pc' = "utils_loop"
             /\ UNCHANGED slideErr
        ELSE /\ slideErr' = "embed"
             /\ pc' = "utils_catch"
             /\ UNCHANGED <<pages, i>>
    /\ UNCHANGED <<ui, fnVars, drawVars, ver, entry, pkg, slideFiles, slideWidth, slideHeight,
                   canvas, progress, result, error, mediaFiles, urls,
                   logoInfo, imgEvent, docResult>>

\* lines 633-635: catch (slideErr) { console.error(...) }: no page is added
Utils_CatchSlide ==
    /\ pc = "utils_catch"
    /\ i' = i + 1
    /\ pc' = "utils_loop"
    /\ UNCHANGED <<ui, fnVars, drawVars, ver, entry, pkg, slideFiles, slideWidth, slideHeight,
                   canvas, pages, progress, result, error, slideErr,
                   mediaFiles, urls, logoInfo, imgEvent, docResult>>

\* lines 638-641: progressCallback(95); await pdfDoc.save()
Utils_LoopExit ==
    /\ pc = "utils_loop"
    /\ i >= Len(slideFiles)
    /\ progressCallback(95)
    /\ pc' = "utils_save"
    /\ UNCHANGED <<ui, fnVars, drawVars, ver, entry, pkg, slideFiles, slideWidth, slideHeight, i,
                   canvas, pages, result, error, slideErr, mediaFiles, urls,
                   logoInfo, imgEvent, docResult>>

\* lines 643-644: progressCallback(100); return pdfBytes
Utils_Return ==
    /\ pc = "utils_save"
    /\ progressCallback(100)
    /\ result' = "pdf"
    /\ pc' = "returned"
    /\ UNCHANGED <<ui, fnVars, drawVars, ver, entry, pkg, slideFiles, slideWidth, slideHeight, i,
                   canvas, pages, error, slideErr, mediaFiles, urls,
                   logoInfo, imgEvent, docResult>>

Utils_Next ==
    \/ Utils_Start \/ Utils_Open \/ Utils_ReadManifest \/ Utils_MapSlides
    \/ Utils_LoopHead \/ Utils_ReadSlide \/ Utils_ImageSettled
    \/ Utils_DrawText \/ Utils_Encode \/ Utils_EmbedPng \/ Utils_CatchSlide
    \/ Utils_LoopExit \/ Utils_Return

Next ==
    \/ convertDocument \/ convertDocumentReturn
    \/ HostImageDecode
    \/ Ppt_Next
    \/ P5_Next
    \/ Utils_Next

Spec == Init /\ [][Next]_vars

\* every awaited step eventually settles and every continuation eventually
\* runs: the JavaScript event loop does not starve a ready continuation
LiveSpec == Init /\ [][Next]_vars /\ WF_vars(Next)

\* ---- a progress observer that misbehaves (src/pptConverter.js) -----------
\* progressCallback is called synchronously at lines 13, 60, 80, 140 and 152,
\* all of them inside the outer try and outside the try of the slide loop.
\* Under Spec the observer returns from every call; here a call may also
\* throw, or never return.

ObserverInit ==
    /\ Init
    /\ ver = "ppt"
    /\ entry = "direct"

\* the conversion is about to call progressCallback
AtProgressCall ==
    /\ ver = "ppt"
    /\ \/ pc \in {"start", "ppt_loop", "ppt_save"}
       \/ pc = "ppt_loadAsync" /\ pkg.valid /\ ~NoSlides(findSlideFiles(pkg))

\* the value the call passes
Ppt_ProgressValue ==
    CASE pc = "start" -> 10
      [] pc = "ppt_loadAsync" -> 20
      [] pc = "ppt_loop" /\ i < Len(slideFiles) -> SlideProgress(i, Len(slideFiles))
      [] pc = "ppt_loop" /\ i >= Len(slideFiles) -> 95
      [] pc = "ppt_save" -> 100

\* what the function does between the await it resumes from and the call:
\* lines 20-57 set the canvas size and find the slides, lines 145-150 revoke
\* the URLs of mediaFiles
Ppt_BeforeProgress(readOk) ==
    /\ slideWidth' = IF pc = "ppt_loadAsync"
                     THEN Ppt_SlideSize(pkg, readOk)[1] ELSE slideWidth
    /\ slideHeight' = IF pc = "ppt_loadAsync"
                      THEN Ppt_SlideSize(pkg, readOk)[2] ELSE slideHeight
    /\ slideFiles' = IF pc = "ppt_loadAsync" THEN findSlideFiles(pkg)
                     ELSE slideFiles
    /\ urls' = IF pc = "ppt_save" THEN urls \ mediaFiles ELSE urls

\* the observer throws: the error reaches the catch of lines 155-158, which
\* throws `Failed to convert PowerPoint to PDF: ${error.message}`
Ppt_ObserverThrows ==
    /\ AtProgressCall
    /\ \E readOk \in BOOLEAN : Ppt_BeforeProgress(readOk)
    /\ progressCallback(Ppt_ProgressValue)
    /\ Throw("ObserverFailed")
    /\ UNCHANGED <<ui, fnVars, drawVars, ver, entry, pkg, i, canvas, pages,
                   slideErr, mediaFiles, logoInfo, imgEvent, docResult>>

\* the observer never returns: the call is synchronous, nothing runs after it
Ppt_ObserverHangs ==
    /\ AtProgressCall
    /\ \E readOk \in BOOLEAN : Ppt_BeforeProgress(readOk)
    /\ progressCallback(Ppt_ProgressValue)
    /\ pc' = "ppt_observer"
    /\ UNCHANGED <<ui, fnVars, drawVars, ver, entry, pkg, i, canvas, pages, result,
                   error, slideErr, mediaFiles, logoInfo, imgEvent, docResult>>

ObserverNext ==
    \/ Ppt_Next
    \/ HostImageDecode
    \/ Ppt_ObserverThrows
    \/ Ppt_ObserverHangs

ObserverSpec == ObserverInit /\ [][ObserverNext]_vars

\* ---- properties ---------------------------------------------------------

Finished == pc = "returned" \/ (pc = "cd_done" /\ result # "none")

PptVersions == {"ppt", "p5"}

\* the k-th smallest element of a set of numbers
KthSmallest(S, k) == CHOOSE x \in S : Cardinality({y \in S : y < x}) = k - 1

EntrySet == {pkg.entries[k] : k \in DOMAIN pkg.entries}

SlidePcs ==
    {"ppt_loop", "ppt_read", "ppt_rels", "ppt_background", "ppt_shapes",
     "ppt_images", "ppt_text", "ppt_encode", "ppt_embed", "ppt_catch",
     "p5_loop", "p5_read", "p5_background", "p5_logo", "p5_text", "p5_encode",
     "p5_embed", "p5_catch",
     "utils_loop", "utils_read", "utils_image", "utils_text", "utils_encode",
     "utils_embed", "utils_catch"}

HasKind(kind) == \E k \in DOMAIN pages : pages[k].kind = kind

\* C1: a returned PDF of a valid package with N >= 1 slide entries has exactly
\* N pages, each one a rendered page or an error page, whichever slides failed
C1_PageCount ==
    (result = "pdf" /\ pkg.valid /\ Len(pkg.entries) >= 1) =>
        /\ Len(pages) = Len(pkg.entries)
        /\ \A k \in DOMAIN pages : pages[k].kind \in {"image", "error"}

\* C2: in pptConverter.js the k-th page belongs to the slide with the k-th
\* smallest numeric suffix, whatever the enumeration order of the archive, and
\* page numbers are strictly ascending
C2_PageOrder ==
    ver \in PptVersions =>
        /\ \A k \in DOMAIN pages : pages[k].number = KthSmallest(EntrySet, k)
        /\ \A k \in DOMAIN pages :
              k > 1 => pages[k - 1].number < pages[k].number

C2_Witness ==
    /\ ver = "ppt"
    /\ result = "pdf"
    /\ pkg.entries = <<10, 2>>
    /\ Len(pages) = 2

\* C3: in pptConverter.js a slide that fails gets, at its own position, an
\* error page with its number and the error message, and every other page is
\* the rendering of its own slide alone, as without any failure
C3_PagesInv ==
    ver \in PptVersions =>
        \A k \in DOMAIN pages :
            /\ pages[k].number = slideFiles[k]
            /\ pages[k].kind \in {"image", "error"}
            /\ pages[k].kind = "error" =>
                  pages[k].msg \in {"read", "encode", "embed"}
            /\ pages[k].kind = "image" => pages[k].content = {slideFiles[k]}

\* the step that ends a failed slide appends its error page
C3_FailedSlideStep ==
    (ver \in PptVersions /\ slideErr # "none" /\ i' = i + 1) =>
        /\ Len(pages') = i'
        /\ SubSeq(pages', 1, Len(pages)) = pages
        /\ pages'[i'].kind = "error"
        /\ pages'[i'].number = slideFiles[i']
        /\ pages'[i'].msg = slideErr

C3_ErrorIsolation == []C3_PagesInv /\ [][C3_FailedSlideStep]_vars

C3_Witness ==
    /\ ver = "ppt"
    /\ result = "pdf"
    /\ Len(pages) = 3
    /\ pages[1].kind = "image"
    /\ pages[2].kind = "error"
    /\ pages[3].kind = "image"

\* C4: src/pptConverter.js never throws for a valid archive with at least one
\* slide entry: what it throws is MalformedPackage or NoSlidesFound, and a
\* slide error never makes the call throw
C4_OnlyFatalThrows ==
    ver = "ppt" =>
        /\ result = "thrown" => error \in {"MalformedPackage", "NoSlidesFound"}
        /\ (pkg.valid /\ Len(pkg.entries) >= 1) => result # "thrown"
        /\ (Finished /\ pkg.valid /\ Len(pkg.entries) >= 1) => result = "pdf"

C4_Witness ==
    /\ ver = "ppt"
    /\ result = "pdf"
    /\ HasKind("error")

\* C5: with zero slide entries the conversion throws (NoSlidesFound in
\* pptConverter.js), returns no PDF and never adds a page
C5_NoSlidesFatal ==
    (pkg.valid /\ Len(pkg.entries) = 0) =>
        /\ pages = <<>>
        /\ result # "pdf"
        /\ Finished => result = "thrown"
        /\ (Finished /\ ver \in PptVersions) => error = "NoSlidesFound"

C5_Witness ==
    /\ ver = "ppt"
    /\ pkg.valid
    /\ pkg.entries = <<>>
    /\ result = "thrown"
    /\ error = "NoSlidesFound"

\* C6 as stated: an archive without ppt/presentation.xml never yields a PDF
C6_MissingManifestFatal ==
    (pkg.valid /\ ~pkg.manifest) => result # "pdf"

\* C6 amended: without ppt/presentation.xml only converterUtils.js fails the
\* whole job (MalformedPackage, no page, no PDF); pptConverter.js goes on with
\* the default 960x540 canvas and throws only when there is no slide entry
C6_MissingManifest ==
    (pkg.valid /\ ~pkg.manifest) =>
        /\ ver = "utils" =>
              /\ pages = <<>>
              /\ result # "pdf"
              /\ Finished => (result = "thrown" /\ error = "MalformedPackage")
        /\ ver \in PptVersions =>
              /\ result = "thrown" =>
                    (error = "NoSlidesFound" /\ pkg.entries = <<>>)
              /\ pc \in SlidePcs =>
                    (slideWidth = DefaultSlideWidth /\
                     slideHeight = DefaultSlideHeight)
              /\ (Finished /\ pkg.entries # <<>>) =>
                    (result = "pdf" /\ Len(pages) = Len(pkg.entries))

C6_Witness ==
    /\ ver = "ppt"
    /\ pkg.valid
    /\ ~pkg.manifest
    /\ result = "pdf"
    /\ Len(pages) >= 1
    /\ slideWidth = DefaultSlideWidth

\* C7: the values passed to the progress callback are integers in [0,100]
\* and never decrease, also through convertDocument
C7_ProgressMonotone ==
    \A k \in DOMAIN progress :
        /\ progress[k] \in 0 .. 100
        /\ k > 1 => progress[k - 1] <= progress[k]

\* C8: the callback has been called before the first slide is processed, and
\* the last value passed before a PDF is returned is 100
C8_ProgressStartEnd ==
    /\ pc \in SlidePcs => Len(progress) >= 1
    /\ result = "pdf" =>
          (Len(progress) >= 1 /\ progress[Len(progress)] = 100)

C8_Witness ==
    /\ ver = "ppt"
    /\ result = "pdf"
    /\ Len(pages) >= 1
    /\ progress[Len(progress)] = 100

\* C9: every page, rendered or error, has the shared canvas size; the size is
\* fixed before the first slide (960x540 in pptConverter.js when no size is
\* declared) and no slide step changes it
C9_PageSizeInv ==
    /\ \A k \in DOMAIN pages :
          pages[k].w = slideWidth /\ pages[k].h = slideHeight
    /\ (ver \in PptVersions /\ pkg.sldSz = <<>> /\ pc \in SlidePcs) =>
          (slideWidth = DefaultSlideWidth /\ slideHeight = DefaultSlideHeight)

C9_SizeKept ==
    pc \in SlidePcs => (slideWidth' = slideWidth /\ slideHeight' = slideHeight)

C9_PageSize == []C9_PageSizeInv /\ [][C9_SizeKept]_vars

C9_Witness ==
    /\ ver = "ppt"
    /\ result = "pdf"
    /\ slideWidth = 960 /\ slideHeight = 720
    /\ HasKind("error")
    /\ HasKind("image")

\* C10: every call of convertPptToPdf eventually returns or throws, given
\* that every host step settles
C10_Terminates == <>(result # "none" \/ pc = "cd_done")

\* ---- the layers of a slide (src/pptConverter.js:93-103) ------------------

\* the z-order of a draw call: background fill, background image, non-text
\* shape, picture, text
Layer(op) ==
    CASE op = "fill" -> 1
      [] op = "bgImage" -> 2
      [] op = "shape" -> 3
      [] op = "picture" -> 4
      [] op = "text" -> 5

LayersAscend(d) ==
    \A a, b \in DOMAIN d : a < b => Layer(d[a]) <= Layer(d[b])

\* the draw calls of a slide, as made so far, are in layer order
C11_LayersInv == ver = "ppt" => LayersAscend(drawn)

\* a step that draws only adds calls, none of a layer below one already drawn
C11_LayerStep ==
    (ver = "ppt" /\ drawn' # drawn /\ drawn' # <<>>) =>
        /\ Len(drawn') > Len(drawn)
        /\ SubSeq(drawn', 1, Len(drawn)) = drawn
        /\ LayersAscend(drawn')

\* C11: within a slide the draw calls come in the order background fill,
\* background image, non-text shapes, pictures, text; no call of an earlier
\* layer follows a call of a later layer, so no picture is drawn over the text
C11_DrawOrder == []C11_LayersInv /\ [][C11_LayerStep]_vars

C11_Witness ==
    /\ ver = "ppt"
    /\ pc = "ppt_encode"
    /\ drawn = <<"fill", "bgImage", "shape", "picture", "text">>

\* ---- relationships of a slide (src/pptConverter.js:167-208, 420-461) -----

Drawn(op) == \E k \in DOMAIN drawn : drawn[k] = op

\* the slide's picture and background picture resolve to a loaded image
PictureResolved == Resolved(slideRels, mediaFiles, "rId2")

DrawPcs == {"ppt_background", "ppt_shapes", "ppt_images", "ppt_text", "ppt_encode"}

\* an unresolved picture or background picture is never drawn, raises nothing,
\* and the shapes and the text of the slide are drawn all the same
C16_SkippedInv ==
    (ver = "ppt" /\ relFile # "unset" /\ ~PictureResolved) =>
        /\ ~Drawn("picture")
        /\ ~Drawn("bgImage")
        /\ pc \in DrawPcs => slideErr = "none"
        /\ pc \in {"ppt_encode", "ppt_embed"} =>
              Drawn("fill") /\ Drawn("shape") /\ Drawn("text")

\* the steps that meet the unresolved reference go on to the next helper, and
\* the page the slide gets once its PNG is embedded is a rendered page, after
\* which the loop goes on
C16_SkippedStep ==
    (ver = "ppt" /\ relFile # "unset" /\ ~PictureResolved) =>
        /\ pc = "ppt_background" => pc' = "ppt_shapes" /\ slideErr' = "none"
        /\ pc = "ppt_images" =>
              pc' = "ppt_text" /\ slideErr' = "none" /\ drawn' = drawn
        /\ (pc = "ppt_embed" /\ pages' # pages /\ slideErr = "none") =>
              /\ pages' = Append(pages, RenderedPage(slideFiles[i + 1], canvas,
                                                     slideWidth, slideHeight))
              /\ i' = i + 1
              /\ pc' = "ppt_loop"

\* C16: a picture or background whose relationship id is not in the slide's
\* table, or whose target is not a loaded media entry, is skipped silently;
\* the slide still gets a rendered page with its other content and the
\* conversion goes on with the next slide
C16_UnresolvedSkipped == []C16_SkippedInv /\ [][C16_SkippedStep]_vars

C16_Witness ==
    /\ ver = "ppt"
    /\ pc = "ppt_loop"
    /\ i = 1
    /\ Len(slideFiles) = 2
    /\ mediaFiles = {}
    /\ pkg.media = "broken"
    /\ pages = <<RenderedPage(slideFiles[1], {slideFiles[1]},
                              slideWidth, slideHeight)>>

\* C18: a slide without a .rels entry gets the empty relationship table and
\* no error, and goes on to be drawn as a normal page
C18_NoRelsInv ==
    (ver = "ppt" /\ relFile = "null") =>
        /\ slideRels = <<>>
        /\ pc \in DrawPcs => slideErr = "none"
        /\ pc \in {"ppt_encode", "ppt_embed"} =>
              Drawn("fill") /\ Drawn("shape") /\ Drawn("text")

C18_NoRelsStep ==
    (ver = "ppt" /\ pc = "ppt_rels" /\ relFile' = "null") =>
        /\ slideRels' = <<>>
        /\ pc' = "ppt_background"
        /\ slideErr' = "none"
        /\ pages' = pages

C18_PageStep ==
    (ver = "ppt" /\ relFile = "null" /\ pc = "ppt_embed" /\ pages' # pages
        /\ slideErr = "none") =>
        pages'[Len(pages')].kind = "image"

C18_NoRelsIsEmptyTable ==
    []C18_NoRelsInv /\ [][C18_NoRelsStep /\ C18_PageStep]_vars

C18_Witness ==
    /\ ver = "ppt"
    /\ relFile = "null"
    /\ slideRels = <<>>
    /\ pc = "ppt_embed"
    /\ drawn = <<"fill", "fill", "shape", "text">>

\* ==== the helper functions of the renderer, each run on its own ============

\* the conversion itself stands still while a helper is looked at
convVars == <<ver, entry, pkg, pc, slideFiles, slideWidth, slideHeight, i,
              canvas, pages, progress, result, error, slideErr, mediaFiles,
              urls, logoInfo, imgEvent, docResult, relFile, slideRels, drawn>>

HelperInit ==
    /\ ver = "ppt"
    /\ entry = "direct"
    /\ pkg = [valid |-> TRUE, manifest |-> TRUE, sldSz |-> <<>>,
              entries |-> <<1>>, media |-> "none"]
    /\ pc = "helper"
    /\ slideFiles = <<1>>
    /\ slideWidth = DefaultSlideWidth
    /\ slideHeight = DefaultSlideHeight
    /\ i = 0
    /\ canvas = {}
    /\ pages = <<>>
    /\ progress = <<>>
    /\ result = "none"
    /\ error = "none"
    /\ slideErr = "none"
    /\ mediaFiles = {}
    /\ urls = {}
    /\ logoInfo = FALSE
    /\ imgEvent = "none"
    /\ docResult = "none"
    /\ relFile = "unset"
    /\ slideRels = <<>>
    /\ drawn = <<>>
    /\ call = NoCall
    /\ loc = NoLocals
    /\ ret = NoReturn
    /\ ui = Mounted

\* ---- joining the runs of a paragraph --------------------------------------
\* src/pptConverter.js:621-696 (drawSlideText), src/unnamed/part_006:862-947
\* (processTextRuns).  A run is its decoded text, a sequence of characters.

MaxRuns == 2
MaxRunLen == 2

Chars == {"a", " ", "!"}

RunTexts == UNION {[1 .. n -> Chars] : n \in 0 .. MaxRunLen}

RunLists == UNION {[1 .. n -> RunTexts] : n \in 1 .. MaxRuns}

\* text.startsWith(c) / text.endsWith(c) for some c of S
StartsWithAny(t, S) == t # <<>> /\ t[1] \in S
EndsWithAny(t, S) == t # <<>> /\ t[Len(t)] \in S

\* src/pptConverter.js:664-673: ' ' ',' '.' ';' ':'
PptStops == {" ", ",", ".", ";", ":"}

\* src/unnamed/part_006:899-901: /[\s,.;:!?()[\]{}'"]/
P6Stops == {" ", ",", ".", ";", ":", "!", "?", "(", ")", "[", "]", "{", "}",
            "'", "\""}

Stops(impl) == IF impl = "ppt" THEN PptStops ELSE P6Stops

\* i > 0 && processedRuns.length > 0 && neither side is a stop character
RunPrefix(impl, k, processed, text) ==
    IF /\ k > 1
       /\ processed # <<>>
       /\ ~StartsWithAny(text, Stops(impl))
       /\ ~EndsWithAny(processed[Len(processed)], Stops(impl))
    THEN <<" ">>
    ELSE <<>>

\* the loop over textRuns from run k on: an empty text is skipped, every
\* other run is pushed as prefix + text
RECURSIVE processTextRunsFrom(_, _, _, _)
processTextRunsFrom(impl, runs, k, processed) ==
    IF k > Len(runs) THEN processed
    ELSE IF runs[k] = <<>>
         THEN processTextRunsFrom(impl, runs, k + 1, processed)
         ELSE processTextRunsFrom(impl, runs, k + 1,
                  Append(processed,
                         RunPrefix(impl, k, processed, runs[k]) \o runs[k]))

processTextRuns(impl, runs) == processTextRunsFrom(impl, runs, 1, <<>>)

\* processedRuns.map(run => run.text).join('')
RECURSIVE JoinTexts(_)
JoinTexts(texts) ==
    IF texts = <<>> THEN <<>> ELSE Head(texts) \o JoinTexts(Tail(texts))

Call_processTextRuns ==
    /\ call = NoCall
    /\ \E impl \in {"ppt", "p6"}, runs \in RunLists :
        /\ call' = [fn |-> "processTextRuns", impl |-> impl, textRuns |-> runs]
        /\ ret' = [done |-> TRUE,
                   text |-> JoinTexts(processTextRuns(impl, runs))]
    /\ UNCHANGED <<ui, convVars, loc>>

\* ---- wrapping a paragraph into lines --------------------------------------
\* src/pptConverter.js:717-742, src/unnamed/part_006:956-992 (wrapText),
\* src/unnamed/part_005:815-838 (wrapText).  The text is what text.split(' ')
\* makes of it: a sequence of words, "" where two spaces meet.  A line is the
\* sequence of the words it joins with single spaces; <<>> is the empty string.

MaxWords == 3

Words == {"", "a", "b", "W"}

Texts == UNION {[1 .. n -> Words] : n \in 1 .. MaxWords}

\* the advance width of a word in the current font; a space is 1 wide
Advance(word) ==
    CASE word = "" -> 0
      [] word = "a" -> 2
      [] word = "b" -> 3
      [] word = "W" -> 9

RECURSIVE LineWidth(_)
LineWidth(line) ==
    IF line = <<>> THEN 0
    ELSE IF Len(line) = 1 THEN Advance(line[1])
    ELSE Advance(Head(line)) + 1 + LineWidth(Tail(line))

\* ctx.measureText(line).width: the sum of the advances, or, as nothing in
\* the code depends on how the host measures, any width at all
measureText(measure, line) ==
    IF measure = "advance" THEN {LineWidth(line)} ELSE {0, LineWidth(<<"W">>)}

\* the available widths tried, with the way of measuring
WrapCases == {<<"advance", 4>>, <<"advance", 6>>, <<"any", 6>>}

\* a word as a line of its own
Str(word) == IF word = "" THEN <<>> ELSE <<word>>

\* currentLine ? `${currentLine} ${word}` : word
TestLine(currentLine, word) ==
    IF currentLine # <<>> THEN Append(currentLine, word) ELSE Str(word)

\* a line that is not kept
push_lost(lines, line) == lines

\* lines.push(currentLine)
push(lines, line) == Append(lines, line)

\* a comparison that never finds a line too wide
Overflows_never(impl, width, maxWidth, currentLine) == FALSE

\* metrics.width > maxWidth && currentLine; part_005 has no && currentLine
Overflows(impl, width, maxWidth, currentLine) ==
    IF impl = "p5" THEN width > maxWidth
    ELSE width > maxWidth /\ currentLine # <<>>

\* text.trim(), of which only emptiness and the words matter
RECURSIVE Trim(_)
Trim(text) ==
    IF text = <<>> THEN <<>>
    ELSE IF Head(text) = "" THEN Trim(Tail(text))
    ELSE IF text[Len(text)] = "" THEN Trim(SubSeq(text, 1, Len(text) - 1))
    ELSE text

\* if (!text.trim()) return lines, which only part_006 has
ReturnsAtOnce(c) == c.impl = "p6" /\ Trim(c.text) = <<>>

\* wrapText(text, maxWidth, ctx) is called
wrapText_begin ==
    /\ call = NoCall
    /\ \E impl \in {"ppt", "p6", "p5"}, text \in Texts, c \in WrapCases :
        call' = [fn |-> "wrapText", impl |-> impl, text |-> text,
                 measure |-> c[1], maxWidth |-> c[2]]
    /\ loc' = [k |-> 1, lines |-> <<>>, currentLine |-> <<>>]
    /\ UNCHANGED <<ui, convVars, ret>>

\* one round of for (const word of words): an empty word is skipped (not in
\* part_005); the test line is measured; the current line is pushed and the
\* word starts the next line, or the word joins the current line
wrapText_word ==
    /\ call.fn = "wrapText"
    /\ ~ret.done
    /\ loc.k <= Len(call.text)
    /\ ~ReturnsAtOnce(call)
    /\ LET word == call.text[loc.k]
           testLine == TestLine(loc.currentLine, word)
       IN  IF call.impl # "p5" /\ word = ""
           THEN loc' = [loc EXCEPT !.k = loc.k + 1]
           ELSE \E width \in measureText(call.measure, testLine) :
                IF Overflows(call.impl, width, call.maxWidth, loc.currentLine)
                THEN loc' = [k |-> loc.k + 1,
                             lines |-> push(loc.lines, loc.currentLine),
                             currentLine |-> Str(word)]
                ELSE loc' = [k |-> loc.k + 1,
                             lines |-> loc.lines,
                             currentLine |-> testLine]
    /\ UNCHANGED <<ui, convVars, call, ret>>

\* after the loop: the last line is pushed; without any line the trimmed text
\* becomes the only line (not in part_005); return lines
wrapText_end ==
    /\ call.fn = "wrapText"
    /\ ~ret.done
    /\ loc.k > Len(call.text) \/ ReturnsAtOnce(call)
    /\ LET pushed == IF loc.currentLine # <<>>
                     THEN push(loc.lines, loc.currentLine)
                     ELSE loc.lines
       IN  ret' = [done |-> TRUE,
                   lines |-> IF /\ call.impl # "p5"
                                /\ pushed = <<>>
                                /\ Trim(call.text) # <<>>
                             THEN <<Trim(call.text)>>
                             ELSE pushed]
    /\ UNCHANGED <<ui, convVars, call, loc>>

\* ---- the top offset of a text shape ---------------------------------------
\* src/unnamed/part_006:718-726.  Heights are whole, even numbers of pixels.

MaxHalfHeight == 6

Heights == {2 * k : k \in 0 .. MaxHalfHeight}

InitialTextOffset == 2
BottomPadding == 5
MinTextOffset == 2

Max(a, b) == IF a >= b THEN a ELSE b

\* let yOffset = 2; middle: (boxHeight - totalTextHeight) / 2;
\* bottom: boxHeight - totalTextHeight - 5
AnchoredOffset(anchor, boxHeight, totalTextHeight) ==
    IF anchor = "middle" THEN (boxHeight - totalTextHeight) \div 2
    ELSE IF anchor = "bottom" THEN boxHeight - totalTextHeight - BottomPadding
    ELSE InitialTextOffset

\* an offset that is used as computed
verticalOffset_unclamped(anchor, boxHeight, totalTextHeight) ==
    AnchoredOffset(anchor, boxHeight, totalTextHeight)

\* yOffset = Math.max(yOffset, 2)
verticalOffset(anchor, boxHeight, totalTextHeight) ==
    Max(AnchoredOffset(anchor, boxHeight, totalTextHeight), MinTextOffset)

Call_verticalOffset ==
    /\ call = NoCall
    /\ \E anchor \in {"top", "middle", "bottom"}, bh \in Heights, th \in Heights :
        /\ call' = [fn |-> "verticalOffset", anchor |-> anchor,
                    boxHeight |-> bh, totalTextHeight |-> th]
        /\ ret' = [done |-> TRUE, yOffset |-> verticalOffset(anchor, bh, th)]
    /\ UNCHANGED <<ui, convVars, loc>>

\* ---- EMU to pixels ----------------------------------------------------------
\* src/pptConverter.js:32-34 (canvas size, rounded), 335-339 (shapes), 446-450
\* (pictures), 535-539 (text boxes).  An unrounded product v * (dpi / perInch)
\* is kept exact: whole pixels and the remainder over perInch.

Scaled(v, dpi, perInch) ==
    [px |-> (v * dpi) \div perInch, frac |-> (v * dpi) % perInch]

\* const emuToPixel = 96 / 914400; parseInt(offMatch[1]) * emuToPixel
drawSlideShapes_emuToPixel(v) == Scaled(v, Dpi, EmuPerInch)

\* pictures placed at 72 dots per inch
drawSlideImages_emuToPixel_72dpi(v) == Scaled(v, 72, EmuPerInch)

drawSlideImages_emuToPixel(v) == Scaled(v, Dpi, EmuPerInch)

drawSlideText_emuToPixel(v) == Scaled(v, Dpi, EmuPerInch)

\* nothing, half a pixel less and more, a pixel, an inch, a 10in x 7.5in slide
EmuValues == {0, 4762, 4763, 9525, EmuPerInch} \cup
             {DeclaredSldSz[k] : k \in DOMAIN DeclaredSldSz}

Call_emuToPixel ==
    /\ call = NoCall
    /\ \E site \in {"canvas", "shape", "picture", "text"}, v \in EmuValues :
        /\ call' = [fn |-> "emuToPixel", site |-> site, emu |-> v]
        /\ ret' = [done |-> TRUE,
                   pixels |->
                       CASE site = "canvas" -> [px |-> emuToPixel(v), frac |-> 0]
                         [] site = "shape" -> drawSlideShapes_emuToPixel(v)
                         [] site = "picture" -> drawSlideImages_emuToPixel(v)
                         [] site = "text" -> drawSlideText_emuToPixel(v)]
    /\ UNCHANGED <<ui, convVars, loc>>

\* ---- the target of a relationship -----------------------------------------
\* src/pptConverter.js:186-193, src/converterUtils.js:473-480.  A path is the
\* sequence of its segments between slashes; an absolute path starts with the
\* empty segment.

Targets ==
    {<<"..", "media", "image1.png">>, <<"image1.png">>,
     <<"media", "image1.png">>, <<"", "ppt", "media", "image1.png">>,
     <<"ppt", "media", "image1.png">>, <<"..">>}

\* target.startsWith(dir + '/')
StartsWithDir(target, dir) == Len(target) > 1 /\ target[1] = dir

\* target.startsWith('/')
IsAbsolute(target) == Len(target) > 1 /\ target[1] = ""

normalizeTarget(impl, target) ==
    IF StartsWithDir(target, "..") THEN <<"ppt">> \o Tail(target)
    ELSE IF impl = "utils" THEN <<"ppt", "slides">> \o target
    ELSE IF ~IsAbsolute(target) /\ ~StartsWithDir(target, "ppt")
         THEN <<"ppt", "slides">> \o target
         ELSE target

Call_normalizeTarget ==
    /\ call = NoCall
    /\ \E impl \in {"ppt", "utils"}, target \in Targets :
        /\ call' = [fn |-> "normalizeTarget", impl |-> impl, target |-> target]
        /\ ret' = [done |-> TRUE, target |-> normalizeTarget(impl, target)]
    /\ UNCHANGED <<ui, convVars, loc>>

\* ---- drawing the lines of a paragraph -------------------------------------
\* src/pptConverter.js:744-782, src/unnamed/part_006:783-838.  The fillText
\* calls of one paragraph, in order, each with the glyph drawn and its x.

MaxLines == 3

\* the text shape: its left edge and its width, and the measured width of a
\* line, in pixels
TextShape == [x |-> 100, boxWidth |-> 200, textWidth |-> 40]

\* maxFontSize, in pixels
FontSizes == {10, 20}

\* let lineX = x + 5; center: x + boxWidth / 2; right: x + boxWidth - 5
BaseX(shape, alignment) ==
    IF alignment = "center" THEN shape.x + (shape.boxWidth \div 2)
    ELSE IF alignment = "right" THEN shape.x + shape.boxWidth - 5
    ELSE shape.x + 5

Bullet(x) == [glyph |-> "bullet", x |-> x]
Line(x) == [glyph |-> "line", x |-> x]

\* src/pptConverter.js:757-778: the bullet with the first line only; for a
\* left-aligned paragraph lineX += maxFontSize * 1.5 with the bullet
Ppt_drawLine(shape, alignment, isBullet, lineIndex, maxFontSize) ==
    LET lineX == BaseX(shape, alignment) IN
    IF isBullet /\ lineIndex = 0
    THEN IF alignment = "left"
         THEN <<Bullet(lineX), Line(lineX + ((maxFontSize * 15) \div 10))>>
         ELSE IF alignment = "center"
         THEN <<Bullet(lineX - (shape.textWidth \div 2) - maxFontSize),
                Line(lineX)>>
         ELSE <<Bullet(lineX - shape.textWidth - maxFontSize), Line(lineX)>>
    ELSE <<Line(lineX)>>

\* src/unnamed/part_006:756-760, 796-829: inside if (alignment === 'left')
\* the bullet with the first line and lineX += bulletIndent for every line
P6_drawLine(shape, alignment, isBullet, lineIndex, maxFontSize, indentLevel) ==
    LET lineX == BaseX(shape, alignment)
        levelIndent == (maxFontSize * 8) \div 10
        bulletIndent == ((maxFontSize * 12) \div 10) + (indentLevel * levelIndent)
    IN  IF alignment = "left"
        THEN IF isBullet
             THEN (IF lineIndex = 0
                   THEN <<Bullet(lineX + (indentLevel * levelIndent))>>
                   ELSE <<>>) \o <<Line(lineX + bulletIndent)>>
             ELSE IF indentLevel > 0
                  THEN <<Line(lineX + (indentLevel * levelIndent))>>
                  ELSE <<Line(lineX)>>
        ELSE <<Line(lineX)>>

\* for (let lineIndex = 0; lineIndex < lines.length; lineIndex++)
RECURSIVE drawLinesFrom(_, _, _, _, _, _, _, _)
drawLinesFrom(impl, shape, alignment, isBullet, lineIndex, n, fs, lvl) ==
    IF lineIndex >= n THEN <<>>
    ELSE (IF impl = "ppt"
          THEN Ppt_drawLine(shape, alignment, isBullet, lineIndex, fs)
          ELSE P6_drawLine(shape, alignment, isBullet, lineIndex, fs, lvl))
         \o drawLinesFrom(impl, shape, alignment, isBullet, lineIndex + 1, n,
                          fs, lvl)

Call_drawLines ==
    /\ call = NoCall
    /\ \E impl \in {"ppt", "p6"}, alignment \in {"left", "center", "right"},
          isBullet \in BOOLEAN, n \in 1 .. MaxLines, fs \in FontSizes,
          lvl \in 0 .. 1 :
        /\ call' = [fn |-> "drawLines", impl |-> impl, alignment |-> alignment,
                    isBullet |-> isBullet, lines |-> n, maxFontSize |-> fs,
                    indentLevel |-> lvl]
        /\ ret' = [done |-> TRUE,
                   calls |-> drawLinesFrom(impl, TextShape, alignment, isBullet,
                                           0, n, fs, lvl)]
    /\ UNCHANGED <<ui, convVars, loc>>

\* ---- the order in which the text shapes of a slide are drawn ---------------
\* src/pptConverter.js:505-509, src/unnamed/part_006:531-589,
\* src/unnamed/part_005:381-402.  A text shape is a <p:sp> with its role (a
\* title placeholder or not) and the y of its <a:off>; a shape is named by
\* its position in the slide XML.

MaxShapes == 3

TextShapes == [role : {"title", "body"}, y : {1, 2}]

ShapeLists == UNION {[1 .. n -> TextShapes] : n \in 1 .. MaxShapes}

\* src/pptConverter.js:506-509: for (const shapeXml of textShapes), the
\* matches of the regular expression in the order of the XML
Ppt_textShapes(shapes) == [k \in 1 .. Len(shapes) |-> k]

RECURSIVE InsertByY(_, _, _)
InsertByY(k, s, shapes) ==
    IF s = <<>> THEN <<k>>
    ELSE IF shapes[k].y < shapes[Head(s)].y THEN <<k>> \o s
    ELSE <<Head(s)>> \o InsertByY(k, Tail(s), shapes)

\* src/unnamed/part_006:586: shapeInfo.sort((a, b) => a.y - b.y), a stable sort
RECURSIVE P6_shapeInfo(_, _)
P6_shapeInfo(shapes, n) ==
    IF n = 0 THEN <<>> ELSE InsertByY(n, P6_shapeInfo(shapes, n - 1), shapes)

\* src/unnamed/part_005:744-804 extractTextElements: the text of a <p:title>
\* element, when the slide XML has one, is pushed first as the one element of
\* type 'title'; the paragraphs of every <p:txBody> follow in the order of the
\* XML as 'normal' or 'bullet', those of a title placeholder too
P5_extractTextElements(shapes, pTitle) ==
    (IF pTitle THEN <<[type |-> "title", shape |-> 0]>> ELSE <<>>)
    \o [k \in 1 .. Len(shapes) |-> [type |-> "normal", shape |-> k]]

\* src/unnamed/part_005:382-402: textElements.find(el => el.type === 'title')
\* is drawn first; of the sorted elements every title is skipped and the
\* others, which the comparator leaves in their order, are drawn
P5_sortedElements(elements) ==
    LET titles == SelectSeq(elements, LAMBDA e : e.type = "title")
        others == SelectSeq(elements, LAMBDA e : e.type # "title")
    IN  (IF titles = <<>> THEN <<>> ELSE <<Head(titles)>>) \o others

Call_drawSlideText_shapes ==
    /\ call = NoCall
    /\ \E impl \in {"ppt", "p6", "p5"}, shapes \in ShapeLists, pTitle \in BOOLEAN :
        /\ call' = [fn |-> "drawSlideText_shapes", impl |-> impl,
                    textShapes |-> shapes, pTitle |-> pTitle]
        /\ ret' = [done |-> TRUE,
                   order |->
                       CASE impl = "ppt" -> Ppt_textShapes(shapes)
                         [] impl = "p6" -> P6_shapeInfo(shapes, Len(shapes))
                         [] impl = "p5" ->
                             LET elements == P5_sortedElements(
                                     P5_extractTextElements(shapes, pTitle))
                             IN  [k \in DOMAIN elements |->
                                     elements[k].shape]]
    /\ UNCHANGED <<ui, convVars, loc>>

\* ---- a failure inside a text shape ----------------------------------------
\* src/pptConverter.js:503-797, src/unnamed/part_006:589-853.  A run is "text"
\* (an <a:t> with characters), "none" (no <a:t>: if (!textElement) continue)
\* or "throws": its <a:t> holds a character reference above U+10FFFF, for
\* which String.fromCodePoint raises a RangeError (pptConverter.js:485,
\* part_006:881).  A paragraph is the sequence of its runs, a shape the
\* sequence of its paragraphs.

MaxParagraphs == 2

ParagraphKinds ==
    {<<"text">>, <<"none", "text">>, <<"throws", "text">>, <<"text", "throws">>,
     <<>>}

ParagraphLists ==
    UNION {[1 .. n -> ParagraphKinds] : n \in 1 .. MaxParagraphs}

Throws(paragraph) == \E k \in DOMAIN paragraph : paragraph[k] = "throws"

\* the runs of a paragraph that reach fillText, as (shape, paragraph, run)
RunsDrawn(s, p, paragraph) ==
    LET ks == SelectSeq([k \in DOMAIN paragraph |-> k],
                        LAMBDA k : paragraph[k] = "text")
    IN  [j \in DOMAIN ks |-> [shape |-> s, paragraph |-> p, run |-> ks[j]]]

\* for (const paragraph of paragraphs) inside the try of the shape: the runs
\* of a paragraph are extracted before any of its lines is drawn, and what a
\* run raises leaves the loop for the catch of the shape (pptConverter.js:790,
\* part_006:846)
RECURSIVE drawParagraphsFrom(_, _, _)
drawParagraphsFrom(s, paragraphs, p) ==
    IF p > Len(paragraphs) THEN <<>>
    ELSE IF Throws(paragraphs[p]) THEN <<>>
    ELSE RunsDrawn(s, p, paragraphs[p])
         \o drawParagraphsFrom(s, paragraphs, p + 1)

\* for (const shapeXml of textShapes) { try { ... } catch { console.warn } }
RECURSIVE drawShapesFrom(_, _)
drawShapesFrom(shapes, s) ==
    IF s > Len(shapes) THEN <<>>
    ELSE drawParagraphsFrom(s, shapes[s], 1) \o drawShapesFrom(shapes, s + 1)

\* drawSlideText on a slide of two text shapes
Call_drawSlideText_paragraphs ==
    /\ call = NoCall
    /\ \E impl \in {"ppt", "p6"}, first \in ParagraphLists, second \in ParagraphLists :
        /\ call' = [fn |-> "drawSlideText_paragraphs", impl |-> impl,
                    shapes |-> <<first, second>>]
        /\ ret' = [done |-> TRUE, raised |-> FALSE,
                   runs |-> drawShapesFrom(<<first, second>>, 1)]
    /\ UNCHANGED <<ui, convVars, loc>>

\* ---- laying out one paragraph ---------------------------------------------
\* src/unnamed/part_006:710-716 and 1035-1092 (the first pass estimates the
\* number of lines), part_006:756-782 and 956-992 (the second pass wraps and
\* draws), src/pptConverter.js:695-742 (one pass, the loop written in place).
\* A text is a sequence of characters, a word a sequence of characters without
\* a space, a line the sequence of the words it joins with single spaces.

\* the runs tried: at most two runs of at most one character
LayoutRuns ==
    {runs \in RunLists :
        Len(runs) <= 2 /\ \A k \in DOMAIN runs : Len(runs[k]) <= 1}

\* boxWidth in pixels
BoxWidths == {25, 40, 60}

\* text.split(' ')
RECURSIVE SplitFrom(_, _, _, _)
SplitFrom(text, k, words, current) ==
    IF k > Len(text) THEN Append(words, current)
    ELSE IF text[k] = " "
         THEN SplitFrom(text, k + 1, Append(words, current), <<>>)
         ELSE SplitFrom(text, k + 1, words, Append(current, text[k]))

SplitWords(text) == SplitFrom(text, 1, <<>>, <<>>)

HasWord(words) == \E k \in DOMAIN words : words[k] # <<>>

\* the number of characters of a line
RECURSIVE LineChars(_)
LineChars(line) ==
    IF line = <<>> THEN 0
    ELSE IF Len(line) = 1 THEN Len(line[1])
    ELSE Len(Head(line)) + 1 + LineChars(Tail(line))

\* the advance of a character in the font set before measuring: half the font
\* size, a bold one six tenths of it
CharWidth(bold, fontSize) == (fontSize * (IF bold THEN 6 ELSE 5)) \div 10

\* maxFontSize * 1.5 in pptConverter.js:714, fontSize * 1.2 + indentLevel *
\* fontSize * 0.8 at indent level 0 in part_006:760-762 and 1060
BulletIndent(impl, fontSize) ==
    IF impl = "ppt" THEN (fontSize * 15) \div 10 ELSE (fontSize * 12) \div 10

\* for (const word of words) of wrapText and of the loop in pptConverter.js,
\* then if (currentLine) lines.push(currentLine)
RECURSIVE WrapFrom(_, _, _, _, _, _, _)
WrapFrom(words, k, lines, currentLine, maxWidth, bold, fontSize) ==
    IF k > Len(words)
    THEN IF currentLine # <<>> THEN Append(lines, currentLine) ELSE lines
    ELSE IF words[k] = <<>>
         THEN WrapFrom(words, k + 1, lines, currentLine, maxWidth, bold, fontSize)
         ELSE LET testLine == Append(currentLine, words[k])
              IN  IF /\ LineChars(testLine) * CharWidth(bold, fontSize) > maxWidth
                     /\ currentLine # <<>>
                  THEN WrapFrom(words, k + 1, Append(lines, currentLine),
                                <<words[k]>>, maxWidth, bold, fontSize)
                  ELSE WrapFrom(words, k + 1, lines, testLine, maxWidth, bold,
                                fontSize)

\* the same loop in estimateNumberOfLines, which counts from 1
RECURSIVE CountFrom(_, _, _, _, _, _)
CountFrom(words, k, numLines, currentLine, availableWidth, fontSize) ==
    IF k > Len(words) THEN numLines
    ELSE IF words[k] = <<>>
         THEN CountFrom(words, k + 1, numLines, currentLine, availableWidth,
                        fontSize)
         ELSE LET testLine == Append(currentLine, words[k])
              IN  IF /\ LineChars(testLine) * CharWidth(FALSE, fontSize)
                          > availableWidth
                     /\ currentLine # <<>>
                  THEN CountFrom(words, k + 1, numLines + 1, <<words[k]>>,
                                 availableWidth, fontSize)
                  ELSE CountFrom(words, k + 1, numLines, testLine,
                                 availableWidth, fontSize)

\* estimateNumberOfLines(paragraph, maxWidth, fontSize, ctx, 0, isBullet): the
\* contents of the <a:t> elements one after the other, the width less the
\* margin and, for a bullet, the indent, the font `${fontSize}px Arial`; what
\* measureText raises is caught and 1 is returned
estimateNumberOfLines(runs, maxWidth, fontSize, isBullet, measure) ==
    LET words == SplitWords(JoinTexts(runs))
        availableWidth ==
            maxWidth - 10 - (IF isBullet THEN BulletIndent("p6", fontSize) ELSE 0)
    IN  IF measure = "throws" /\ HasWord(words) THEN 1
        ELSE Max(1, CountFrom(words, 1, 1, <<>>, availableWidth, fontSize))

\* the drawing pass: no processed run, no line; the processed runs joined and
\* wrapped in the font of the first run.  measureText is called for the first
\* word, and what it raises is caught by nothing before the catch of the shape
drawParagraph(impl, runs, boxWidth, fontSize, isBullet, alignment, bold, measure) ==
    LET processed == processTextRuns(impl, runs)
        words == SplitWords(JoinTexts(processed))
        availableWidth ==
            boxWidth - 10
                - (IF isBullet /\ alignment = "left"
                   THEN BulletIndent(impl, fontSize) ELSE 0)
    IN  IF processed = <<>> \/ ~HasWord(words)
        THEN [raised |-> FALSE, laid |-> <<>>]
        ELSE IF measure = "throws"
        THEN [raised |-> TRUE, laid |-> <<>>]
        ELSE [raised |-> FALSE,
              laid |-> WrapFrom(words, 1, <<>>, <<>>, availableWidth, bold,
                                fontSize)]

\* one paragraph of a text shape goes through drawSlideText; pptConverter.js
\* has no first pass
Call_layoutParagraph ==
    /\ call = NoCall
    /\ \E impl \in {"ppt", "p6"}, runs \in LayoutRuns, boxWidth \in BoxWidths,
          fontSize \in FontSizes, isBullet \in BOOLEAN,
          alignment \in {"left", "center"}, bold \in BOOLEAN,
          measure \in {"advance", "throws"} :
        /\ call' = [fn |-> "layoutParagraph", impl |-> impl, textRuns |-> runs,
                    boxWidth |-> boxWidth, fontSize |-> fontSize,
                    isBullet |-> isBullet, alignment |-> alignment,
                    bold |-> bold, measure |-> measure]
        /\ LET drawnLines == drawParagraph(impl, runs, boxWidth, fontSize,
                                           isBullet, alignment, bold, measure)
           IN  ret' = [done |-> TRUE,
                       estimated |-> IF impl = "p6"
                                     THEN estimateNumberOfLines(runs, boxWidth,
                                              fontSize, isBullet, measure)
                                     ELSE 0,
                       raised |-> drawnLines.raised,
                       laid |-> drawnLines.laid]
    /\ UNCHANGED <<ui, convVars, loc>>

HelperNext ==
    \/ Call_processTextRuns
    \/ wrapText_begin \/ wrapText_word \/ wrapText_end
    \/ Call_verticalOffset
    \/ Call_emuToPixel
    \/ Call_normalizeTarget
    \/ Call_drawLines
    \/ Call_drawSlideText_shapes
    \/ Call_drawSlideText_paragraphs
    \/ Call_layoutParagraph

HelperSpec == HelperInit /\ [][HelperNext]_vars

\* ---- the converter UI -----------------------------------------------------
\* src/FileConverter.js:14-140 and the controls of 170-270.  A file is its
\* name; a converted file is named by the file and the conversion type it was
\* made from.  startConversion is an async function: the conversion it awaits
\* settles in a later step, with the file and the type of the click.

MaxConversions == 2

FileNames == {"a.docx", "b.pptx", "c.txt"}

\* selectedFile.name.split('.').pop().toLowerCase() and the type chosen for it
TypeForFile(name) ==
    CASE name = "a.docx" -> "docx-to-pdf"
      [] name = "b.pptx" -> "ppt-to-pdf"
      [] OTHER -> ""

\* handleFileChange, which FileUploader calls whenever a file is chosen or
\* dropped; the uploader is never disabled
handleFileChange ==
    /\ \E selectedFile \in FileNames :
        ui' = [ui EXCEPT !.file = selectedFile,
                         !.convertedFile = NoConvertedFile,
                         !.error = IF TypeForFile(selectedFile) = ""
                                   THEN "Unsupported file type" ELSE "none",
                         !.conversionType = TypeForFile(selectedFile)]
    /\ UNCHANGED <<convVars, fnVars>>

\* handleConversionChange: the <Select>, rendered when a file is set and
\* disabled while isConverting; its values are the <option> rendered for the
\* file and the placeholder
handleConversionChange ==
    /\ ui.file # "none"
    /\ ~ui.isConverting
    /\ \E value \in {TypeForFile(ui.file), ""} :
        ui' = [ui EXCEPT !.conversionType = value,
                         !.convertedFile = NoConvertedFile,
                         !.error = "none"]
    /\ UNCHANGED <<convVars, fnVars>>

\* startConversion up to its await: the Convert button is rendered when a file
\* is set and disabled without a conversion type or while isConverting, so
\* the early return of lines 50-53 is never taken; setIsConverting(true),
\* setProgress(0), setError(null), setInterval, convertDocument is called
startConversion ==
    /\ ui.file # "none"
    /\ ui.conversionType # ""
    /\ ~ui.isConverting
    /\ ui.started < MaxConversions
    /\ ui' = [ui EXCEPT !.isConverting = TRUE,
                        !.progress = 0,
                        !.error = "none",
                        !.started = ui.started + 1,
                        !.timers = ui.timers \cup {ui.started + 1},
                        !.running = [progressInterval |-> ui.started + 1,
                                     file |-> ui.file,
                                     conversionType |-> ui.conversionType]]
    /\ UNCHANGED <<convVars, fnVars>>

\* a progressInterval fires: prevProgress + 10, 90 at most
progressIntervalFires ==
    /\ ui.timers # {}
    /\ ui' = [ui EXCEPT !.progress = IF ui.progress + 10 >= 90 THEN 90
                                     ELSE ui.progress + 10]
    /\ UNCHANGED <<convVars, fnVars>>

\* (p) => setProgress(p), called by the running conversion
conversionProgress ==
    /\ ui.running # NoConversion
    /\ \E p \in {20, 95} : ui' = [ui EXCEPT !.progress = p]
    /\ UNCHANGED <<convVars, fnVars>>

\* the await returns: clearInterval(progressInterval), setProgress(100),
\* setConvertedFile(result); finally setIsConverting(false)
conversionResolves ==
    /\ ui.running # NoConversion
    /\ ui' = [ui EXCEPT !.timers = ui.timers \ {ui.running.progressInterval},
                        !.progress = 100,
                        !.convertedFile = [file |-> ui.running.file,
                                           conversionType |->
                                               ui.running.conversionType],
                        !.isConverting = FALSE,
                        !.running = NoConversion]
    /\ UNCHANGED <<convVars, fnVars>>

\* the await throws: catch setError(`Conversion failed: ...`); finally
\* setIsConverting(false)
conversionRejects ==
    /\ ui.running # NoConversion
    /\ ui' = [ui EXCEPT !.error = "Conversion failed",
                        !.isConverting = FALSE,
                        !.running = NoConversion]
    /\ UNCHANGED <<convVars, fnVars>>

\* resetConverter: the button is rendered when a file is set
resetConverter ==
    /\ ui.file # "none"
    /\ ui' = [ui EXCEPT !.file = "none",
                        !.convertedFile = NoConvertedFile,
                        !.conversionType = "",
                        !.error = "none",
                        !.progress = 0]
    /\ UNCHANGED <<convVars, fnVars>>

UiNext ==
    \/ handleFileChange
    \/ handleConversionChange
    \/ startConversion
    \/ progressIntervalFires
    \/ conversionProgress
    \/ conversionResolves
    \/ conversionRejects
    \/ resetConverter

\* the component is mounted; nothing else runs
UiSpec == HelperInit /\ [][UiNext]_vars

\* ---- properties of the helper functions -----------------------------------

\* whitespace and the punctuation that ends a sentence or a clause
JoinStops == {" ", ".", ",", ";", ":", "!", "?"}

NonEmptyRuns(runs) == SelectSeq(runs, LAMBDA r : r # <<>>)

\* the runs joined with one space exactly between two runs of which neither
\* the end of the first nor the start of the second is a stop character
RECURSIVE ClaimedJoin(_)
ClaimedJoin(runs) ==
    IF runs = <<>> THEN <<>>
    ELSE IF Len(runs) = 1 THEN runs[1]
    ELSE runs[1]
         \o (IF ~EndsWithAny(runs[1], JoinStops) /\ ~StartsWithAny(runs[2], JoinStops)
             THEN <<" ">> ELSE <<>>)
         \o ClaimedJoin(Tail(runs))

\* C12: the joined text of a paragraph has a single space between two
\* consecutive runs exactly when neither the last character of the first nor
\* the first character of the second is whitespace or punctuation
C12_RunJoining ==
    call.fn = "processTextRuns" =>
        ret.text = ClaimedJoin(NonEmptyRuns(call.textRuns))

NonEmptyWords(line) == SelectSeq(line, LAMBDA w : w # "")

\* the lines joined with single spaces, as words
RECURSIVE JoinLines(_)
JoinLines(lines) ==
    IF lines = <<>> THEN <<>> ELSE Head(lines) \o JoinLines(Tail(lines))

\* C13: whatever the host measures, the wrapped lines joined with single
\* spaces hold the words of the text, each once and in the order of the text
C13_WrapKeepsWords ==
    (call.fn = "wrapText" /\ ret.done) =>
        NonEmptyWords(JoinLines(ret.lines)) = NonEmptyWords(call.text)

C13_Witness ==
    /\ call.fn = "wrapText"
    /\ call.impl = "p5"
    /\ call.measure = "any"
    /\ call.text = <<"a", "W", "b">>
    /\ ret.done
    /\ ret.lines = <<<<"a">>, <<"W", "b">>>>

\* C14 as stated: with anchor "bottom" and more text than the shape is high
\* the top offset is 0
C14_ClampsToZero ==
    (/\ call.fn = "verticalOffset"
     /\ call.anchor = "bottom"
     /\ call.totalTextHeight > call.boxHeight) => ret.yOffset = 0

\* C14: with anchor "bottom" and more text than the shape is high the top
\* offset is the minimum offset of 2 pixels, never a negative one
C14_ClampsToMinimum ==
    (/\ call.fn = "verticalOffset"
     /\ call.anchor = "bottom"
     /\ call.totalTextHeight > call.boxHeight) =>
        ret.yOffset = MinTextOffset /\ ret.yOffset >= 0

C14_Witness ==
    /\ call.fn = "verticalOffset"
    /\ call.anchor = "bottom"
    /\ call.boxHeight = 2
    /\ call.totalTextHeight = 12
    /\ ret.yOffset = 2

\* C15: at 96 dpi 914400 EMU are exactly 96 pixels and 0 EMU are 0 pixels,
\* and the canvas size, the shapes, the pictures and the text boxes are all
\* converted by the ratio 96 / 914400 (the canvas size rounded to a pixel)
C15_EmuToPixels ==
    call.fn = "emuToPixel" =>
        /\ call.emu = 914400 => ret.pixels = [px |-> 96, frac |-> 0]
        /\ call.emu = 0 => ret.pixels = [px |-> 0, frac |-> 0]
        /\ call.site # "canvas" =>
              /\ ret.pixels.px * 914400 + ret.pixels.frac = call.emu * 96
              /\ ret.pixels.frac \in 0 .. 914399
        /\ call.site = "canvas" =>
              /\ ret.pixels.frac = 0
              /\ 2 * (ret.pixels.px * 914400 - call.emu * 96) \in -914400 .. 914400

C15_Witness ==
    /\ call.fn = "emuToPixel"
    /\ call.site = "picture"
    /\ call.emu = 914400
    /\ ret.pixels.px = 96

\* the target as the rule states it: '../' replaced by 'ppt/', a bare file
\* name put under 'ppt/slides/', anything else as it is
ClaimedTarget(target) ==
    IF StartsWithDir(target, "..") THEN <<"ppt">> \o Tail(target)
    ELSE IF Len(target) = 1 THEN <<"ppt", "slides">> \o target
    ELSE target

\* C17: a target starting with '../' is rewritten under ppt/, a bare file name
\* under ppt/slides/, and every other target is used unchanged
C17_Normalization ==
    call.fn = "normalizeTarget" => ret.target = ClaimedTarget(call.target)

IsWide(word) == Advance(word) > call.maxWidth

\* C19: a word wider than the available width is alone on its line, once for
\* each time it stands in the text
C19_WideWordAlone ==
    (/\ call.fn = "wrapText"
     /\ call.impl \in {"ppt", "p6"}
     /\ call.measure = "advance"
     /\ ret.done) =>
        /\ \A l \in DOMAIN ret.lines :
              (\E j \in DOMAIN ret.lines[l] : IsWide(ret.lines[l][j])) =>
                  Len(ret.lines[l]) = 1
        /\ Cardinality({l \in DOMAIN ret.lines :
                           Len(ret.lines[l]) = 1 /\ IsWide(ret.lines[l][1])})
           = Cardinality({k \in DOMAIN call.text : IsWide(call.text[k])})

C19_Witness ==
    /\ call.fn = "wrapText"
    /\ call.impl = "p6"
    /\ call.measure = "advance"
    /\ call.maxWidth = 6
    /\ call.text = <<"a", "W", "b">>
    /\ ret.done
    /\ ret.lines = <<<<"a">>, <<"W">>, <<"b">>>>

\* C20: of a bulleted paragraph of several lines the bullet is drawn once,
\* before the first line, and every line starts at the x of the first line's
\* text, which is not the x of the bullet
C20_BulletOnceAligned ==
    (call.fn = "drawLines" /\ call.isBullet /\ call.lines >= 2) =>
        /\ {k \in DOMAIN ret.calls : ret.calls[k].glyph = "bullet"} = {1}
        /\ \A k \in DOMAIN ret.calls :
              ret.calls[k].glyph = "line" => ret.calls[k].x = ret.calls[2].x
        /\ ret.calls[2].x # ret.calls[1].x

IsTitle(shapes, k) == shapes[k].role = "title"

\* the shapes in a stable order keyed on the role, titles first
TitlesFirst(shapes) ==
    LET documentOrder == [k \in 1 .. Len(shapes) |-> k]
    IN  SelectSeq(documentOrder, LAMBDA k : IsTitle(shapes, k))
        \o SelectSeq(documentOrder, LAMBDA k : ~IsTitle(shapes, k))

\* C21: the text shapes of a slide are drawn titles first whatever their
\* order in the slide XML, and shapes of the same role in their XML order
C21_TitlesFirst ==
    call.fn = "drawSlideText_shapes" =>
        SelectSeq(ret.order, LAMBDA k : k # 0) = TitlesFirst(call.textShapes)

\* ---- one slide after another (src/pptConverter.js:76-138) -----------------

\* the positions inside the body of the slide loop
PptSlidePcs ==
    {"ppt_read", "ppt_rels", "ppt_background", "ppt_shapes", "ppt_images",
     "ppt_text", "ppt_encode", "ppt_embed", "ppt_catch"}

\* while slide i + 1 is worked on, and between two slides, the document holds
\* the pages of exactly the i slides before it
C22_PagesBeforeSlide ==
    ver = "ppt" =>
        /\ pc \in PptSlidePcs \cup {"ppt_loop"} => Len(pages) = i
        /\ pc \in PptSlidePcs => i < Len(slideFiles)

\* the document only grows at its end, by the page of the slide worked on,
\* in the step that ends the work on that slide
C22_AppendOnly ==
    ver = "ppt" =>
        \/ pages' = pages
        \/ /\ pc \in {"ppt_embed", "ppt_catch"}
           /\ pages' # pages
           /\ Len(pages') = Len(pages) + 1
           /\ SubSeq(pages', 1, Len(pages)) = pages
           /\ pages'[Len(pages')].number = slideFiles[i + 1]
           /\ i' = i + 1
           /\ pc' = "ppt_loop"

\* the first step of a slide is taken from the loop head only
C22_SlideStart ==
    (ver = "ppt" /\ pc' = "ppt_read" /\ pc # "ppt_read") =>
        (pc = "ppt_loop" /\ Len(pages) = i /\ i' = i)

\* C22: in src/pptConverter.js the slides are processed one after another: no
\* step of slide i+1 is taken before the page of slide i is appended, and the
\* document is append-only with one page being assembled at a time
C22_Sequential ==
    []C22_PagesBeforeSlide /\ [][C22_AppendOnly /\ C22_SlideStart]_vars

C22_Witness ==
    /\ ver = "ppt"
    /\ pc = "ppt_read"
    /\ i = 2
    /\ Len(pages) = 2
    /\ pages[1].kind = "error"
    /\ pages[2].kind = "image"

\* C23: whatever the progress observer does (returns late, throws, never
\* returns), a conversion of a valid package with slides is neither aborted
\* nor left standing in the observer
C23_ObserverHarmless ==
    (ver = "ppt" /\ pkg.valid /\ Len(pkg.entries) >= 1) =>
        /\ result # "thrown"
        /\ pc # "ppt_observer"

InSeq(x, s) == \E k \in DOMAIN s : s[k] = x

\* C24: a failure inside one paragraph or run costs at most that paragraph:
\* every run with text of every paragraph in which nothing failed is drawn,
\* in the same shape and in the other shapes, and drawSlideText raises nothing
C24_ParagraphIsolation ==
    call.fn = "drawSlideText_paragraphs" =>
        /\ ~ret.raised
        /\ \A s \in DOMAIN call.shapes : \A p \in DOMAIN call.shapes[s] :
              ~Throws(call.shapes[s][p]) =>
                  \A k \in DOMAIN call.shapes[s][p] :
                      call.shapes[s][p][k] = "text" =>
                          InSeq([shape |-> s, paragraph |-> p, run |-> k],
                                ret.runs)

\* the paragraph of the call has at least one word to draw
ParagraphHasWords ==
    HasWord(SplitWords(JoinTexts(processTextRuns(call.impl, call.textRuns))))

\* C25: when measureText throws during layout the paragraph is laid out and
\* drawn all the same, from an estimate of its width: nothing is raised to
\* the catch of the shape and the paragraph gets at least one line
C25_MeasureFallback ==
    (call.fn = "layoutParagraph" /\ call.measure = "throws" /\ ParagraphHasWords)
        => (~ret.raised /\ Len(ret.laid) >= 1)

\* C26: in part_006 the number of lines estimated in the first pass is the
\* number of lines the second pass wraps the paragraph into
C26_EstimateIsLineCount ==
    (/\ call.fn = "layoutParagraph"
     /\ call.impl = "p6"
     /\ call.measure = "advance"
     /\ ParagraphHasWords)
        => ret.estimated = Len(ret.laid)

\* C27: when convertPptToPdf of pptConverter.js has finished, by returning
\* the PDF or by throwing, no object URL created for a media file is left
\* unrevoked
C27_UrlsRevoked == (ver = "ppt" /\ result # "none") => urls = {}

\* C28: once startConversion has settled, by success or by a throw,
\* isConverting is false and the interval it started has been cleared
C28_SettledClean ==
    ui.running = NoConversion => (~ui.isConverting /\ ui.timers = {})

\* C29: a converted file that is offered for download was made from the file
\* and the conversion type that are selected now
C29_NoStaleResult ==
    ui.convertedFile # NoConvertedFile =>
        /\ ui.convertedFile.file = ui.file
        /\ ui.convertedFile.conversionType = ui.conversionType

PptBeforeFirstDraw == {"ppt_read", "ppt_rels", "ppt_background"}

PptDrawing == {"ppt_shapes", "ppt_images", "ppt_text", "ppt_encode", "ppt_embed"}

\* C30: in pptConverter.js the one canvas holds nothing of an earlier slide
\* when a slide starts to draw: it is empty from the top of the iteration to
\* the first draw call, holds the marks of the current slide only from then
\* on, and every rendered page shows the marks of its own slide only
C30_FreshCanvas ==
    ver = "ppt" =>
        /\ pc \in PptBeforeFirstDraw => canvas = {}
        /\ pc \in PptDrawing => canvas = {slideFiles[i + 1]}
        /\ \A k \in DOMAIN pages :
              pages[k].kind = "image" => pages[k].content = {pages[k].number}

\* the second slide has made its first draw call after the first slide
\* failed with its marks on the canvas
C30_Witness ==
    /\ ver = "ppt"
    /\ pc = "ppt_shapes"
    /\ i = 1
    /\ Len(pages) = 1
    /\ pages[1].kind = "error"
    /\ pages[1].msg \in {"encode", "embed"}
    /\ canvas = {slideFiles[2]}

====
